---- MODULE Spec2Model ----
(***************************************************************************)
(* Conditioner.js: one Node (activation group) with its ModuleControllers  *)
(* (candidate bindings), their ConditionsManagers (suitability evaluators),*)
(* the Testers bound to the leaves of the expression trees and the Test    *)
(* classes (probes) kept by TestFactory.                                   *)
(*                                                                         *)
(* JavaScript runs every handler to completion, so each action below is    *)
(* one whole handler: the Node.init call, the require callback of          *)
(* TestFactory.getTest, the require callback of ModuleController.load, a   *)
(* measurement of a Test (Test._measure) and a call of the public          *)
(* ModuleController.unload.  The handlers are written as operators on a    *)
(* record s holding the fields of all objects; the synchronous             *)
(* Observer.publish calls are the nested operator applications.            *)
(***************************************************************************)
EXTENDS Integers, Sequences, FiniteSets, TLC

\* number of ModuleControllers declared on the element
NumControllers == 2
\* in-flight require callbacks per ModuleController the model follows
MaxPending == 2

Controllers == 1..NumControllers
Paths == {"a", "b"}
NoController == 0

(***************************************************************************)
(* ExpressionFormatter.  A condition string is a sequence of characters.   *)
(* fromString fills nested arrays: arr holds every array it creates (arr[1]*)
(* is `tree`), target and the entries of parents are indices into arr,     *)
(* NoArray stands for undefined.  An element of an array is an operator    *)
(* string, an expression object or a nested array.                         *)
(***************************************************************************)
NoArray == 0
NoExpr == [k |-> "none"]
OpItem(op) == [t |-> "op", s |-> op, x |-> NoExpr, id |-> NoArray]
ExprItem(x) == [t |-> "expr", s |-> "-", x |-> x, id |-> NoArray]
ArrItem(id) == [t |-> "arr", s |-> "-", x |-> NoExpr, id |-> id]
UndefItem == [t |-> "undef", s |-> "-", x |-> NoExpr, id |-> NoArray]

\* String.prototype.charAt and String.prototype.substr
charAt(e, i) == IF i >= 0 /\ i < Len(e) THEN e[i + 1] ELSE ""
substr(e, i, n) == SubSeq(e, i + 1, IF i + n < Len(e) THEN i + n ELSE Len(e))

\* array[i] of JavaScript, i counted from 0
At(T, i) == IF i >= 0 /\ i < Len(T) THEN T[i + 1] ELSE UndefItem

\* Array.prototype.splice(start,count,item)
Splice(T, start, count, item) ==
    LET st == IF start < 0
              THEN (IF Len(T) + start < 0 THEN 0 ELSE Len(T) + start)
              ELSE (IF start > Len(T) THEN Len(T) ELSE start)
        en == IF st + count > Len(T) THEN Len(T) ELSE st + count
    IN SubSeq(T, 1, st) \o << item >> \o SubSeq(T, en + 1, Len(T))

\* new UnaryExpression(expression,negate): an expression object is wrapped,
\* anything else is kept as the config of a leaf
LeafExpr(path, value, negate) ==
    [k |-> "leaf", negate |-> negate, path |-> path, value |-> value]
UnaryExpression(item, negate) ==
    IF item.t = "expr"
    THEN [k |-> "un", negate |-> negate, a |-> item.x]
    ELSE [k |-> "badleaf", negate |-> negate]

\* an operand of new BinaryExpression(a,o,b)
Operand(item) == IF item.t = "expr" THEN item.x ELSE [k |-> "junk"]
BinaryExpression(a, o, b) ==
    [k |-> "bin", o |-> o, a |-> Operand(a), b |-> Operand(b)]

\* expression.substr(i,5).match(/and |or |not /g)[0] without its last
\* character, "" if there is no match: the leftmost operator in the window
Operators == << <<"a", "n", "d", " ">>, <<"o", "r", " ">>, <<"n", "o", "t", " ">> >>
OperatorNames == << "and", "or", "not" >>
MatchesAt(w, p, o) ==
    p + Len(o) - 1 <= Len(w) /\ SubSeq(w, p, p + Len(o) - 1) = o
matchOperator(w) ==
    LET hits == {p \in 1..Len(w) : \E n \in DOMAIN Operators : MatchesAt(w, p, Operators[n])}
    IN IF hits = {}
       THEN ""
       ELSE LET p == CHOOSE q \in hits : \A h \in hits : q <= h
                n == CHOOSE m \in DOMAIN Operators : MatchesAt(w, p, Operators[m])
            IN OperatorNames[n]

RECURSIVE readPath(_, _, _)
\* the `fetch path` loop of fromString from index k down
readPath(e, k, path) ==
    IF k < 0 \/ charAt(e, k) \in {" ", "("}
    THEN path
    ELSE readPath(e, k - 1, charAt(e, k) \o path)

\* closeLeaf that does not look for a 'not' before the leaf
closeLeaf_Append(p) ==
    IF p.target = NoArray
    THEN [p EXCEPT !.err = TRUE]
    ELSE [p EXCEPT !.arr[p.target] = Append(@, ExprItem(LeafExpr(p.path, p.value, FALSE))),
                   !.path = "", !.value = "", !.isValue = FALSE]

\* the branch of fromString for the character '}'
closeLeaf(p) ==
    IF p.target = NoArray
    THEN [p EXCEPT !.err = TRUE]
    ELSE LET T == p.arr[p.target]
             negate == At(T, Len(T) - 1).t = "op" /\ At(T, Len(T) - 1).s = "not"
             leaf == ExprItem(LeafExpr(p.path, p.value, negate))
         IN [p EXCEPT !.arr[p.target] = IF negate
                                        THEN [T EXCEPT ![Len(T)] = leaf]
                                        ELSE Append(T, leaf),
                      !.path = "", !.value = "", !.isValue = FALSE]

\* the branch of fromString for the character '('
openGroup(p) ==
    IF p.target = NoArray
    THEN [p EXCEPT !.err = TRUE]
    ELSE LET id == Len(p.arr) + 1 IN
         [p EXCEPT !.arr = Append([@ EXCEPT ![p.target] = Append(@, ArrItem(id))], << >>),
                   !.parents = Append(@, p.target),
                   !.target = id]

\* one iteration of the grouping loop of fromString with its j++: the array
\* and the index afterwards
groupStep(T, j) ==
    IF At(T, j).t # "op"
    THEN [T |-> T, j |-> j + 1]
    ELSE IF At(T, j).s = "not"
    THEN [T |-> Splice(T, j, 2, ExprItem(UnaryExpression(At(T, j + 1), TRUE))), j |-> 0]
    ELSE IF ~(At(T, j + 1).t = "op" /\ At(T, j + 1).s = "not")
    THEN [T |-> Splice(T, j - 1, 3,
                       ExprItem(BinaryExpression(At(T, j - 1), At(T, j).s, At(T, j + 1)))),
          j |-> 0]
    ELSE [T |-> T, j |-> j + 1]

RECURSIVE groupLoop(_, _)
\* the grouping loop of fromString over the array T from index j on
groupLoop(T, j) ==
    IF j >= Len(T)
    THEN T
    ELSE groupLoop(groupStep(T, j).T, groupStep(T, j).j)

\* parent = parents.pop()
popParent(p) ==
    [p EXCEPT !.parent = IF p.parents = << >> THEN NoArray ELSE p.parents[Len(p.parents)],
              !.parents = IF @ = << >> THEN @ ELSE SubSeq(@, 1, Len(@) - 1)]

\* the end of the do body: a target of one element takes the place of the
\* last element of its parent
collapse(p) ==
    IF Len(p.arr[p.target]) = 1 /\ p.parent # NoArray
    THEN [p EXCEPT !.arr[p.parent] =
                       IF Len(@) = 0 THEN @ ELSE [@ EXCEPT ![Len(@)] = p.arr[p.target][1]],
                   !.target = p.parent]
    ELSE p

\* the condition of the do..while
again(e, p) == ~p.err /\ p.i = Len(e) - 1 /\ p.parent # NoArray

RECURSIVE cleanupLoop(_, _)
\* the do..while of fromString that closes levels
cleanupLoop(e, p) ==
    LET p1 == popParent(p)
        p2 == IF p1.target = NoArray
              THEN [p1 EXCEPT !.err = TRUE]
              ELSE IF Len(p1.arr[p1.target]) = 0
              THEN [p1 EXCEPT !.target = p1.parent]
              ELSE collapse([p1 EXCEPT !.arr[p1.target] = groupLoop(@, 0)])
    IN IF again(e, p2) THEN cleanupLoop(e, p2) ELSE p2

\* the `time to clean up` test of fromString for the character c
timeToCleanUp(e, c, p) == [p EXCEPT !.clean = (c = ")" \/ p.i = Len(e) - 1)]

\* one iteration of the for loop of fromString up to its clean-up: clean
\* tells whether the clean-up is to follow
readHead(e, p) ==
    LET c == charAt(e, p.i) IN
    IF c = "{"
    THEN [p EXCEPT !.isValue = TRUE, !.path = readPath(e, p.i - 2, "")]
    ELSE LET p1 == IF c = "}" THEN closeLeaf(p) ELSE p IN
         IF p1.err
         THEN p1
         ELSE IF p1.isValue
         THEN [p1 EXCEPT !.value = @ \o c]
         ELSE LET p2 == IF c = "(" THEN openGroup(p1) ELSE p1 IN
              IF p2.err
              THEN p2
              ELSE IF c = " " \/ p2.i = 0 \/ c = "("
              THEN LET op == matchOperator(substr(e, p2.i, 5)) IN
                   IF op = ""
                   THEN p2
                   ELSE IF p2.target = NoArray
                   THEN [p2 EXCEPT !.err = TRUE]
                   ELSE timeToCleanUp(e, c, [p2 EXCEPT !.arr[p2.target] = Append(@, OpItem(op)),
                                                       !.i = @ + Len(op)])
              ELSE timeToCleanUp(e, c, p2)

\* one iteration of the for loop of fromString, without its i++
readChar(e, p) ==
    LET h == readHead(e, [p EXCEPT !.clean = FALSE])
    IN IF ~h.err /\ h.clean THEN cleanupLoop(e, h) ELSE h

RECURSIVE readChars(_, _)
\* the for loop of fromString
readChars(e, p) ==
    IF p.err \/ p.i >= Len(e)
    THEN p
    ELSE readChars(e, [readChar(e, p) EXCEPT !.i = @ + 1])

\* the variables of fromString when it begins
Begin ==
    [i |-> 0, path |-> "", value |-> "", isValue |-> FALSE, target |-> 1,
     parent |-> NoArray, parents |-> << >>, arr |-> << << >> >>,
     err |-> FALSE, clean |-> FALSE]

\* the return statement of fromString: the expression object it returns,
\* "junk" if it returns something that is no expression
returns(p) == IF Len(p.arr[1]) = 1 THEN Operand(p.arr[1][1]) ELSE [k |-> "junk"]

\* ExpressionFormatter.fromString: what it returns, "throw" if it throws
fromString(e) ==
    LET p == readChars(e, Begin)
    IN IF p.err THEN [k |-> "throw"] ELSE returns(p)

(***************************************************************************)
(* Expression trees.  The evaluator works on the expression fromString     *)
(* returns, written as the sequence of its nodes in preorder (node 1 is    *)
(* the root, a and b are the positions of the children):                   *)
(*   leaf : a UnaryExpression built from {path,value}, with its negate     *)
(*   un   : a UnaryExpression wrapping another expression (child a)        *)
(*   bin  : a BinaryExpression (children a and b, operator o)              *)
(***************************************************************************)
LeafNode(p, v, neg) ==
    [k |-> "leaf", o |-> "-", negate |-> neg, path |-> p, value |-> v, a |-> 0, b |-> 0]
UnNode(e, neg) ==
    [k |-> "un", o |-> "-", negate |-> neg, path |-> "-", value |-> "-", a |-> e, b |-> 0]
BinNode(x, op, y) ==
    [k |-> "bin", o |-> op, negate |-> FALSE, path |-> "-", value |-> "-", a |-> x, b |-> y]
OtherNode(k) ==
    [k |-> k, o |-> "-", negate |-> FALSE, path |-> "-", value |-> "-", a |-> 0, b |-> 0]

RECURSIVE NodesOf(_, _)
\* the nodes of expression x in preorder, the root at position base + 1
NodesOf(x, base) ==
    CASE x.k = "leaf" -> << LeafNode(x.path, x.value, x.negate) >>
      [] x.k = "un" -> << UnNode(base + 2, x.negate) >> \o NodesOf(x.a, base + 1)
      [] x.k = "bin" ->
            LET left == NodesOf(x.a, base + 1)
            IN << BinNode(base + 2, x.o, base + 2 + Len(left)) >>
                   \o left \o NodesOf(x.b, base + 1 + Len(left))
      [] OTHER -> << OtherNode(x.k) >>

\* the condition strings of the model
StrA == << "a", ":", "{", "1", "}" >>
StrNotA == << "n", "o", "t", " " >> \o StrA
StrB == << "b", ":", "{", "2", "}" >>
StrAandB == StrA \o << " ", "a", "n", "d", " " >> \o StrB
StrAandNotB == StrA \o << " ", "a", "n", "d", " ", "n", "o", "t", " " >> \o StrB

\* "a:{1}"
TreeA == NodesOf(fromString(StrA), 0)
\* "not a:{1}"
TreeNotA == NodesOf(fromString(StrNotA), 0)
\* "a:{1} and b:{2}"
TreeAandB == NodesOf(fromString(StrAandB), 0)
\* "a:{1} and not b:{2}"
TreeAandNotB == NodesOf(fromString(StrAandNotB), 0)

LeavesOf(tree) == {i \in DOMAIN tree : tree[i].k = "leaf"}

\* ExpressionFormatter.getExpressionsCount: the number of ":{" in the
\* condition string
getExpressionsCount(e) ==
    Cardinality({i \in 1..(Len(e) - 1) : e[i] = ":" /\ e[i + 1] = "{"})

\* the conditions option of a ModuleController: undefined (no conditions
\* key in the JSON spec), null (absent data-conditions attribute) or a
\* string, with the expression the ConditionsManager parses from it
CondUndefined == [typ |-> "undefined", str |-> << >>, tree |-> << >>]
CondNull == [typ |-> "null", str |-> << >>, tree |-> << >>]
CondString(e) == [typ |-> "string", str |-> e, tree |-> NodesOf(fromString(e), 0)]

Conditions ==
    {CondUndefined, CondNull} \cup
    {CondString(e) : e \in {StrA, StrNotA, StrAandB, StrAandNotB}}

\* the node indices of the trees
LeafIds == UNION {DOMAIN c.tree : c \in Conditions}

\* the {path,value} configs of the leaves: what a Tester asserts
Probes ==
    UNION {{<< c.tree[i].path, c.tree[i].value >> : i \in LeavesOf(c.tree)} : c \in Conditions}

(***************************************************************************)
(* Evaluation.  succeeds() has side effects on the Testers (the cached     *)
(* result and the changed flag), it short-circuits, and it throws a        *)
(* TypeError on a leaf whose _expression is still null.  The result is     *)
(* [v, res, chg]: v is "T", "F" or "X" (thrown), res and chg the Tester    *)
(* fields of the evaluator afterwards.                                     *)
(***************************************************************************)
BoolStr(x) == IF x THEN "T" ELSE "F"

\* Tester.succeeds that asks assert at every call
TesterSucceeds_NoCache(tree, i, val, res, chg) ==
    [v |-> val[<< tree[i].path, tree[i].value >>],
     res |-> [res EXCEPT ![i] = val[<< tree[i].path, tree[i].value >>]],
     chg |-> [chg EXCEPT ![i] = FALSE]]

\* Tester.prototype.succeeds for the Tester of leaf i; val is what
\* assert(expected) of the Test returns at present
TesterSucceeds(tree, i, val, res, chg) ==
    IF chg[i]
    THEN [v |-> val[<< tree[i].path, tree[i].value >>],
          res |-> [res EXCEPT ![i] = val[<< tree[i].path, tree[i].value >>]],
          chg |-> [chg EXCEPT ![i] = FALSE]]
    ELSE [v |-> res[i], res |-> res, chg |-> chg]

RECURSIVE Succeeds_AllAnd(_, _, _, _, _, _)
\* succeeds that takes every operator for 'and'
Succeeds_AllAnd(tree, i, bound, val, res, chg) ==
    LET n == tree[i] IN
    CASE n.k = "leaf" ->
            IF i \notin bound
            THEN [v |-> "X", res |-> res, chg |-> chg]
            ELSE LET t == TesterSucceeds(tree, i, val, res, chg)
                 IN [v |-> BoolStr(t.v # n.negate), res |-> t.res, chg |-> t.chg]
      [] n.k = "un" ->
            LET r == Succeeds_AllAnd(tree, n.a, bound, val, res, chg)
            IN IF r.v = "X" THEN r
               ELSE [v |-> BoolStr((r.v = "T") # n.negate), res |-> r.res, chg |-> r.chg]
      [] OTHER ->
            LET ra == Succeeds_AllAnd(tree, n.a, bound, val, res, chg)
            IN IF ra.v # "T" THEN ra
               ELSE Succeeds_AllAnd(tree, n.b, bound, val, ra.res, ra.chg)

RECURSIVE Succeeds(_, _, _, _, _, _)
\* UnaryExpression.prototype.succeeds / BinaryExpression.prototype.succeeds
Succeeds(tree, i, bound, val, res, chg) ==
    LET n == tree[i] IN
    CASE n.k = "leaf" ->
            IF i \notin bound
            THEN [v |-> "X", res |-> res, chg |-> chg]
            ELSE LET t == TesterSucceeds(tree, i, val, res, chg)
                 IN [v |-> BoolStr(t.v # n.negate), res |-> t.res, chg |-> t.chg]
      [] n.k = "un" ->
            LET r == Succeeds(tree, n.a, bound, val, res, chg)
            IN IF r.v = "X" THEN r
               ELSE [v |-> BoolStr((r.v = "T") # n.negate), res |-> r.res, chg |-> r.chg]
      [] OTHER ->
            LET ra == Succeeds(tree, n.a, bound, val, res, chg)
            IN IF ra.v = "X" THEN ra
               ELSE IF n.o = "and" /\ ra.v = "F" THEN ra
               ELSE IF n.o # "and" /\ ra.v = "T" THEN ra
               ELSE Succeeds(tree, n.b, bound, val, ra.res, ra.chg)


\* the value of the tree when every leaf asserts against the current
\* measurement of its Test (no Tester cache, no short circuit)
RECURSIVE TreeValue(_, _, _)
TreeValue(tree, i, val) ==
    LET n == tree[i] IN
    CASE n.k = "leaf" -> (val[<< n.path, n.value >>] # n.negate)
      [] n.k = "un" -> (TreeValue(tree, n.a, val) # n.negate)
      [] OTHER -> IF n.o = "and"
                  THEN TreeValue(tree, n.a, val) /\ TreeValue(tree, n.b, val)
                  ELSE TreeValue(tree, n.a, val) \/ TreeValue(tree, n.b, val)

(***************************************************************************)
(* State.                                                                  *)
(***************************************************************************)
VARIABLES
    inited,       \* Node.init has run (the ModuleControllers exist)
    cond,         \* ModuleController._options.conditions, per controller
    suitable,     \* ConditionsManager._suitable
    count,        \* ConditionsManager._count
    bound,        \* leaves whose UnaryExpression has a Tester assigned
    res,          \* Tester._result, per controller and leaf
    chg,          \* Tester._changed, per controller and leaf
    changeSub,    \* ModuleController subscribed to 'change' of its manager
    ready,        \* ModuleController._ready
    available,    \* ModuleController._available
    Module,       \* ModuleController._Module is set
    inst,         \* ModuleController._moduleInstance is not null
    link,         \* the instance's _eventPropagationTarget is the controller
    pending,      \* require callbacks of ModuleController.load in flight
    active,       \* Node._activeModuleController (NoController is null)
    readySub,     \* Node subscribed to 'ready' of the controller
    availSub,     \* subscriptions of the Node to 'available' of the controller
    unloadSub,    \* subscriptions of the Node to 'unload' of the controller
    callbacks,    \* Test._callbacks of each Test class, in registration order
    val,          \* what assert(expected) of each Test currently returns
    thrown,       \* the last handler ended in an uncaught TypeError
    loadCalled,   \* load() has been called on the controller
    readyPub,     \* 'ready' events published by the ConditionsManager
    lastChange,   \* _suitable at the manager's last 'change' publication
    trace,        \* the events published by the last handler, in order
    fac,          \* TestFactory, the Test classes and the Testers of one
                  \* expression, followed on their own (FactorySpec)
    prs,          \* one call of ExpressionFormatter.fromString, followed
                  \* loop iteration by loop iteration (ParserSpec)
    obs           \* objects of Observer with their subscriptions (ObserverSpec)

\* the variables of the Node and its controllers
nodeVars == << inited, cond, suitable, count, bound, res, chg, changeSub, ready,
               available, Module, inst, link, pending, active, readySub, availSub,
               unloadSub, callbacks, val, thrown, loadCalled, readyPub,
               lastChange, trace >>

vars == << nodeVars, fac, prs, obs >>

\* the state as one record, the form the handlers work on
Cur == [inited |-> inited, cond |-> cond, suitable |-> suitable, count |-> count,
        bound |-> bound, res |-> res, chg |-> chg, changeSub |-> changeSub,
        ready |-> ready, available |-> available, Module |-> Module,
        inst |-> inst, link |-> link, pending |-> pending, active |-> active,
        readySub |-> readySub, availSub |-> availSub, unloadSub |-> unloadSub,
        callbacks |-> callbacks, val |-> val, thrown |-> thrown,
        loadCalled |-> loadCalled, readyPub |-> readyPub,
        lastChange |-> lastChange, trace |-> trace]

Becomes(s) ==
    /\ inited' = s.inited /\ cond' = s.cond /\ suitable' = s.suitable
    /\ count' = s.count /\ bound' = s.bound /\ res' = s.res /\ chg' = s.chg
    /\ changeSub' = s.changeSub /\ ready' = s.ready /\ available' = s.available
    /\ Module' = s.Module /\ inst' = s.inst /\ link' = s.link /\ pending' = s.pending
    /\ active' = s.active /\ readySub' = s.readySub /\ availSub' = s.availSub
    /\ unloadSub' = s.unloadSub /\ callbacks' = s.callbacks /\ val' = s.val
    /\ thrown' = s.thrown /\ loadCalled' = s.loadCalled
    /\ readyPub' = s.readyPub /\ lastChange' = s.lastChange /\ trace' = s.trace
    /\ UNCHANGED << fac, prs, obs >>

\* An entry of the trace: the event e of controller b with its data d, the
\* number n of handlers of the Node the publication invokes, and what an
\* observer sees at that moment: the Node's active controller, the
\* controllers with an instance, those whose instance propagates its
\* events to them, the suitable controllers, the 'ready'
\* events the ConditionsManager has published so far and the value of its
\* tree.  The entries are
\*   "measure"                              Test._measure starts its loop over n
\*                                          callbacks
\*   "test.change"                          a callback of Test._measure has
\*                                          published 'change' on the Test instance
\*                                          of leaf n of controller b and its Tester
\*                                          has set _changed
\*   "cm.test"                              test() has evaluated the tree to d
\*   "cm.change" "cm.ready"                 Observer.publish by a ConditionsManager
\*   "ready" "available" "load" "unload"    Observer.publish by a ModuleController
\*   "available:end" "unload:end"           that publish call has returned (and
\*                                          unload returns true)
\*   "load()" "unload()" "onLoad()"         the method has been called
\*   "removePropagationTarget"              unload has called it
\*   "instance.unload()"                    unload has called the module's unload
\*   "unload:false"                         unload has returned false
\*   "elected"                              Node._onModulesReady has elected
\*   "TypeError"                            the handler has thrown
Emit(s, e, b, d, n) ==
    [s EXCEPT !.trace = Append(@, [e |-> e, b |-> b, d |-> d, n |-> n,
                                   act |-> s.active,
                                   live |-> {c \in Controllers : s.inst[c]},
                                   lk |-> {c \in Controllers : s.link[c]},
                                   av |-> {c \in Controllers : s.suitable[c]},
                                   rp |-> IF b = NoController THEN 0 ELSE s.readyPub[b],
                                   tv |-> IF b # NoController /\ s.cond[b].typ = "string"
                                          THEN TreeValue(s.cond[b].tree, 1, s.val)
                                          ELSE TRUE])]

\* the statements of a handler in sequence: F is what follows on the state
\* x the statements before it have produced
Then(x, F(_)) == F(x)

\* ModuleController.prototype.isConditioned
isConditioned(s, b) == s.cond[b].typ # "undefined"

\* ModuleController.prototype.isActive
isActive(s, b) == s.inst[b]

\* ModuleController.prototype.isReady
isReady(s, b) == s.ready[b]

\* ModuleController.prototype.isAvailable: refreshes _available
isAvailable(s, b) == [s EXCEPT !.available[b] = s.suitable[b]]

(***************************************************************************)
(* ModuleController and Node.  unload publishes 'unload', whose subscriber *)
(* is Node._onActiveModuleUnload, which cleans (unload again) and may set  *)
(* a new active controller: the operators are mutually recursive as the    *)
(* methods are.                                                            *)
(***************************************************************************)

\* _onLoad that does not ask isAvailable
mcOnLoad_Unguarded(s, b) ==
    Then(isAvailable(Emit(s, "onLoad()", b, FALSE, 0), b), LAMBDA s1 :
    Emit([s1 EXCEPT !.inst[b] = TRUE, !.link[b] = TRUE], "load", b, FALSE, 0))

\* ModuleController.prototype._onLoad
mcOnLoad(s, b) ==
    Then(isAvailable(Emit(s, "onLoad()", b, FALSE, 0), b), LAMBDA s1 :
    IF ~s1.available[b]
    THEN s1
    ELSE Emit([s1 EXCEPT !.inst[b] = TRUE, !.link[b] = TRUE], "load", b, FALSE, 0))

\* ModuleController.prototype.load
mcLoad(s, b) ==
    Then(Emit([s EXCEPT !.loadCalled[b] = TRUE], "load()", b, FALSE, 0), LAMBDA s1 :
    IF s1.Module[b]
    THEN mcOnLoad(s1, b)
    ELSE [s1 EXCEPT !.pending[b] = @ + 1])

RECURSIVE scanSuitable_Last(_, _)
\* scanSuitable keeping the last available controller instead of the first
scanSuitable_Last(s, i) ==
    IF i > NumControllers
    THEN [s |-> s, mc |-> NoController]
    ELSE LET s1 == isAvailable(s, i)
             r == scanSuitable_Last(s1, i + 1)
         IN IF r.mc # NoController \/ ~s1.available[i] THEN r ELSE [s |-> r.s, mc |-> i]

RECURSIVE scanSuitable(_, _)
\* the loop of Node.prototype._getSuitableActiveModuleController from index
\* i on: the state (isAvailable refreshes _available) and the controller
scanSuitable(s, i) ==
    IF i > NumControllers
    THEN [s |-> s, mc |-> NoController]
    ELSE LET s1 == isAvailable(s, i) IN
         IF ~s1.available[i]
         THEN scanSuitable(s1, i + 1)
         ELSE [s |-> s1, mc |-> i]

\* Node.prototype._getSuitableActiveModuleController
getSuitableActiveModuleController(s) == scanSuitable(s, 1)

\* the controllers whose module defines an unload method
ModulesWithUnload == {1}

RECURSIVE mcUnload(_, _)
RECURSIVE publishUnload(_, _, _)
RECURSIVE cleanActiveModuleController(_)
RECURSIVE setActiveModuleController(_, _)
RECURSIVE onActiveModuleUnload(_)

\* unload that publishes the event before it resets _moduleInstance
mcUnload_PublishFirst(s, b) ==
    Then(Emit([s EXCEPT !.available[b] = FALSE], "unload()", b, FALSE, 0), LAMBDA s1 :
    IF ~s1.inst[b]
    THEN Emit(s1, "unload:false", b, FALSE, 0)
    ELSE
    Then(Emit([s1 EXCEPT !.link[b] = FALSE], "removePropagationTarget", b, FALSE, 0), LAMBDA s2 :
    Then(IF b \in ModulesWithUnload
         THEN Emit(s2, "instance.unload()", b, FALSE, 0)
         ELSE s2, LAMBDA s3 :
    Then(Emit(s3, "unload", b, FALSE, s3.unloadSub[b]), LAMBDA s4 :
    Then(publishUnload([s4 EXCEPT !.inst[b] = FALSE], b, s4.unloadSub[b]), LAMBDA s5 :
    Emit(s5, "unload:end", b, TRUE, s4.unloadSub[b]))))))

\* ModuleController.prototype.unload
mcUnload(s, b) ==
    Then(Emit([s EXCEPT !.available[b] = FALSE], "unload()", b, FALSE, 0), LAMBDA s1 :
    IF ~s1.inst[b]
    THEN Emit(s1, "unload:false", b, FALSE, 0)
    ELSE
    Then(Emit([s1 EXCEPT !.link[b] = FALSE], "removePropagationTarget", b, FALSE, 0), LAMBDA s2 :
    Then(IF b \in ModulesWithUnload
         THEN Emit(s2, "instance.unload()", b, FALSE, 0)
         ELSE s2, LAMBDA s3 :
    Then(Emit([s3 EXCEPT !.inst[b] = FALSE], "unload", b, FALSE, s3.unloadSub[b]), LAMBDA s4 :
    Then(publishUnload(s4, b, s4.unloadSub[b]), LAMBDA s5 :
    Emit(s5, "unload:end", b, TRUE, s4.unloadSub[b]))))))

\* Observer.publish(controller,'unload'): the n subscriptions of the Node
\* taken when the publication started
publishUnload(s, b, n) ==
    IF n = 0 THEN s ELSE publishUnload(onActiveModuleUnload(s), b, n - 1)

\* cleanActiveModuleController that leaves the reference in place
cleanActiveModuleController_KeepsRef(s) ==
    IF s.active = NoController
    THEN s
    ELSE mcUnload([s EXCEPT !.unloadSub[s.active] = IF @ > 0 THEN @ - 1 ELSE 0], s.active)

\* Node.prototype._cleanActiveModuleController
cleanActiveModuleController(s) ==
    IF s.active = NoController
    THEN s
    ELSE Then(mcUnload([s EXCEPT !.unloadSub[s.active] = IF @ > 0 THEN @ - 1 ELSE 0],
                       s.active), LAMBDA s2 :
         [s2 EXCEPT !.active = NoController])

\* Node.prototype._setActiveModuleController
setActiveModuleController(s, b) ==
    IF b = s.active
    THEN s
    ELSE Then(cleanActiveModuleController(s), LAMBDA s1 :
         mcLoad([s1 EXCEPT !.active = b, !.unloadSub[b] = @ + 1], b))

\* onActiveModuleUnload that does not look for another controller
onActiveModuleUnload_NoRescan(s) == cleanActiveModuleController(s)

\* Node.prototype._onActiveModuleUnload
onActiveModuleUnload(s) ==
    Then(getSuitableActiveModuleController(cleanActiveModuleController(s)), LAMBDA r :
    IF r.mc = NoController THEN r.s ELSE setActiveModuleController(r.s, r.mc))

RECURSIVE scanBlocked(_, _, _)
\* the loop of Node.prototype._onModuleAvailable from index i on: whether
\* another available conditioned controller is found
scanBlocked(s, b, i) ==
    IF i > NumControllers
    THEN [s |-> s, blocked |-> FALSE]
    ELSE IF i = b
    THEN scanBlocked(s, b, i + 1)
    ELSE LET s1 == isAvailable(s, i) IN
         IF s1.available[i] /\ isConditioned(s1, i)
         THEN [s |-> s1, blocked |-> TRUE]
         ELSE scanBlocked(s1, b, i + 1)

\* onModuleAvailable without the scan of the other controllers
onModuleAvailable_Unchecked(s, b) == setActiveModuleController(s, b)

\* Node.prototype._onModuleAvailable
onModuleAvailable(s, b) ==
    Then(scanBlocked(s, b, 1), LAMBDA r :
    IF r.blocked THEN r.s ELSE setActiveModuleController(r.s, b))

RECURSIVE publishAvailable(_, _, _)
\* Observer.publish(controller,'available',controller): the n subscriptions
\* of the Node taken when the publication started
publishAvailable(s, b, n) ==
    IF n = 0 THEN s ELSE publishAvailable(onModuleAvailable(s, b), b, n - 1)

\* ModuleController.prototype._onAvailable
mcOnAvailable(s, b) ==
    Then(Emit([s EXCEPT !.available[b] = TRUE], "available", b, FALSE, s.availSub[b]),
         LAMBDA s1 :
    Then(publishAvailable(s1, b, s1.availSub[b]), LAMBDA s2 :
    Emit(s2, "available:end", b, FALSE, s1.availSub[b])))

\* Node.prototype._onModulesReady
onModulesReady(s) ==
    Then(getSuitableActiveModuleController(s), LAMBDA r :
    Then(IF r.mc = NoController THEN r.s ELSE setActiveModuleController(r.s, r.mc),
         LAMBDA s1 :
    Then(Emit(s1, "elected", r.mc, FALSE, 0), LAMBDA s2 :
    [s2 EXCEPT !.availSub = [c \in Controllers |-> @[c] + 1]])))

\* onModuleReady without the test that all controllers are ready
onModuleReady_Unchecked(s) == onModulesReady(s)

\* Node.prototype._onModuleReady
onModuleReady(s) ==
    IF \E c \in Controllers : ~isReady(s, c) THEN s ELSE onModulesReady(s)

\* _onReady that does not set _ready
mcOnReady_NotReady(s, b, suit) ==
    Then(Emit([s EXCEPT !.changeSub[b] = TRUE], "ready", b, FALSE,
              IF s.readySub[b] THEN 1 ELSE 0), LAMBDA s1 :
    Then(IF s1.readySub[b] THEN onModuleReady(s1) ELSE s1, LAMBDA s2 :
    IF suit THEN mcOnAvailable(s2, b) ELSE s2))

\* ModuleController.prototype._onReady
mcOnReady(s, b, suit) ==
    Then(Emit([s EXCEPT !.ready[b] = TRUE, !.changeSub[b] = TRUE], "ready", b, FALSE,
              IF s.readySub[b] THEN 1 ELSE 0), LAMBDA s1 :
    Then(IF s1.readySub[b] THEN onModuleReady(s1) ELSE s1, LAMBDA s2 :
    IF suit THEN mcOnAvailable(s2, b) ELSE s2))

\* _onConditionsChange that loads the module itself when it turns suitable
mcOnConditionsChange_SelfLoad(s, b) ==
    Then(IF s.inst[b] /\ ~s.suitable[b] THEN mcUnload(s, b) ELSE s, LAMBDA s1 :
    IF ~s1.inst[b] /\ s.suitable[b] THEN mcLoad(s1, b) ELSE s1)

\* ModuleController.prototype._onConditionsChange
mcOnConditionsChange(s, b) ==
    Then(IF s.inst[b] /\ ~s.suitable[b] THEN mcUnload(s, b) ELSE s, LAMBDA s1 :
    IF ~s1.inst[b] /\ s.suitable[b] THEN mcOnAvailable(s1, b) ELSE s1)

(***************************************************************************)
(* ConditionsManager, Tester and Test.                                     *)
(***************************************************************************)

\* test that publishes change whatever the value of the tree
cmTest_Always(s, b) ==
    Then(Succeeds(s.cond[b].tree, 1, s.bound[b], s.val, s.res[b], s.chg[b]), LAMBDA r :
    Then([s EXCEPT !.res[b] = r.res, !.chg[b] = r.chg], LAMBDA s1 :
    IF r.v = "X"
    THEN Emit([s1 EXCEPT !.thrown = TRUE], "TypeError", b, FALSE, 0)
    ELSE
    Then(Emit(s1, "cm.test", b, r.v = "T", 0), LAMBDA s2 :
    Then([s2 EXCEPT !.suitable[b] = (r.v = "T")], LAMBDA s3 :
    Then(Emit([s3 EXCEPT !.lastChange[b] = BoolStr(s3.suitable[b])],
              "cm.change", b, s3.suitable[b], 0), LAMBDA s4 :
    IF s4.changeSub[b] THEN mcOnConditionsChange(s4, b) ELSE s4)))))

\* ConditionsManager.prototype.test: the 'change' entry carries what
\* getSuitability returns when the event is published
cmTest(s, b) ==
    Then(Succeeds(s.cond[b].tree, 1, s.bound[b], s.val, s.res[b], s.chg[b]), LAMBDA r :
    Then([s EXCEPT !.res[b] = r.res, !.chg[b] = r.chg], LAMBDA s1 :
    IF r.v = "X"
    THEN Emit([s1 EXCEPT !.thrown = TRUE], "TypeError", b, FALSE, 0)
    ELSE
    Then(Emit(s1, "cm.test", b, r.v = "T", 0), LAMBDA s2 :
    IF (r.v = "T") = s2.suitable[b]
    THEN s2
    ELSE
    Then([s2 EXCEPT !.suitable[b] = (r.v = "T")], LAMBDA s3 :
    Then(Emit([s3 EXCEPT !.lastChange[b] = BoolStr(s3.suitable[b])],
              "cm.change", b, s3.suitable[b], 0), LAMBDA s4 :
    IF s4.changeSub[b] THEN mcOnConditionsChange(s4, b) ELSE s4)))))

\* ConditionsManager.prototype._onReady
cmOnReady(s, b) ==
    Then(cmTest(s, b), LAMBDA s1 :
    IF s1.thrown
    THEN s1
    ELSE Then(Emit(s1, "cm.ready", b, s1.suitable[b], 1), LAMBDA s2 :
         mcOnReady([s2 EXCEPT !.readyPub[b] = @ + 1], b, s2.suitable[b])))

\* loadTesterToExpression without the test of the count
loadTesterToExpression_NoCount(s, b, i) ==
    LET path == s.cond[b].tree[i].path
        s1 == [s EXCEPT !.res[b][i] = FALSE,
                        !.chg[b][i] = TRUE,
                        !.callbacks[path] = Append(@, << b, i >>),
                        !.bound[b] = @ \cup {i},
                        !.count[b] = @ - 1]
    IN cmOnReady(s1, b)

\* the callback ConditionsManager._loadTesterToExpression hands to
\* TestFactory.getTest, for leaf i of controller b: new Tester (whose
\* arrange registers the Test instance in Test._callbacks), assignTester,
\* the subscription to the change of the Test instance, and the count
loadTesterToExpression(s, b, i) ==
    LET path == s.cond[b].tree[i].path
        s1 == [s EXCEPT !.res[b][i] = FALSE,
                        !.chg[b][i] = TRUE,
                        !.callbacks[path] = Append(@, << b, i >>),
                        !.bound[b] = @ \cup {i},
                        !.count[b] = @ - 1]
    IN IF s1.count[b] = 0 THEN cmOnReady(s1, b) ELSE s1

RECURSIVE measureLoop(_, _, _)
\* the loop of Test._measure over Test._callbacks from index j on: each
\* callback publishes 'change' on its Test instance, whose subscribers are
\* the Tester (sets _changed) and then ConditionsManager._onTestResultsChanged
measureLoop(s, path, j) ==
    IF j > Len(s.callbacks[path]) \/ s.thrown
    THEN s
    ELSE LET b == s.callbacks[path][j][1]
             i == s.callbacks[path][j][2]
         IN measureLoop(cmTest(Emit([s EXCEPT !.chg[b][i] = TRUE], "test.change", b,
                                    TRUE, i), b), path, j + 1)

\* Test._measure after the environment changed: f is what the asserts of
\* the Test of that path return from now on
measure(s, path, f) ==
    measureLoop(Emit([s EXCEPT !.val = [q \in DOMAIN @ |->
                                           IF q[1] = path THEN f[q] ELSE @[q]]],
                     "measure", NoController, FALSE, Len(s.callbacks[path])),
                path, 1)

(***************************************************************************)
(* Node.init: _createModuleControllers constructs the ModuleControllers    *)
(* and their ConditionsManagers, then the ready loop.                      *)
(***************************************************************************)

\* createModuleControllers whose ConditionsManagers all start unsuitable
createModuleControllers_Unsuitable(s) ==
    [s EXCEPT
        !.inited = TRUE,
        !.suitable = [c \in Controllers |-> FALSE],
        !.count = [c \in Controllers |->
                      IF s.cond[c].typ = "string"
                      THEN getExpressionsCount(s.cond[c].str) ELSE 0],
        !.ready = [c \in Controllers |->
                      ~isConditioned(s, c) \/ s.cond[c].typ # "string"]]

\* the ConditionsManager and ModuleController constructors, for every
\* controller of the element
createModuleControllers(s) ==
    [s EXCEPT
        !.inited = TRUE,
        !.suitable = [c \in Controllers |-> s.cond[c].typ # "string"],
        !.count = [c \in Controllers |->
                      IF s.cond[c].typ = "string"
                      THEN getExpressionsCount(s.cond[c].str) ELSE 0],
        !.ready = [c \in Controllers |->
                      ~isConditioned(s, c) \/ s.cond[c].typ # "string"]]

RECURSIVE initLoop(_, _)
\* the loop of Node.prototype.init from index i on
initLoop(s, i) ==
    IF i > NumControllers
    THEN s
    ELSE IF isReady(s, i)
    THEN initLoop(onModuleReady(s), i + 1)
    ELSE initLoop([s EXCEPT !.readySub[i] = TRUE], i + 1)

\* Node.prototype.init
nodeInit(s) == initLoop(createModuleControllers(s), 1)

\* the methods the module class defines
ModuleMethods == {"run"}
Methods == {"run", "missing"}

\* execute that answers a missing method like a missing instance
mcExecute_Soft(s, b, m) ==
    IF ~s.inst[b] \/ m \notin ModuleMethods
    THEN [status |-> 404, response |-> "null"]
    ELSE [status |-> 200, response |-> "value"]

\* execute that does not look whether there is an instance
mcExecute_NoInstanceTest(s, b, m) ==
    IF m \notin ModuleMethods
    THEN [status |-> 0, response |-> "Error"]
    ELSE [status |-> 200, response |-> "value"]

\* ModuleController.prototype.execute: what it returns, status 0 and
\* response "Error" standing for the Error it throws; it assigns nothing
mcExecute(s, b, m) ==
    IF ~s.inst[b]
    THEN [status |-> 404, response |-> "null"]
    ELSE IF m \notin ModuleMethods
    THEN [status |-> 0, response |-> "Error"]
    ELSE [status |-> 200, response |-> "value"]

\* Node.prototype.execute
nodeExecute(s, m) ==
    IF s.active # NoController
    THEN mcExecute(s, s.active, m)
    ELSE [status |-> 404, response |-> "null"]

(***************************************************************************)
(* Actions: one per handler.                                               *)
(***************************************************************************)
Fresh(s) == [s EXCEPT !.trace = << >>, !.thrown = FALSE]

WithinBounds(s) == \A c \in Controllers : s.pending[c] <= MaxPending

\* the element before Conditioner.loadModules reaches it, with conditions
\* from CS and the asserts of the Tests from VS
BeforeInit(CS, VS) ==
    /\ inited = FALSE
    /\ cond \in CS
    /\ suitable = [c \in Controllers |-> TRUE]
    /\ count = [c \in Controllers |-> 0]
    /\ bound = [c \in Controllers |-> {}]
    /\ res = [c \in Controllers |-> [i \in LeafIds |-> FALSE]]
    /\ chg = [c \in Controllers |-> [i \in LeafIds |-> FALSE]]
    /\ changeSub = [c \in Controllers |-> FALSE]
    /\ ready = [c \in Controllers |-> FALSE]
    /\ available = [c \in Controllers |-> FALSE]
    /\ Module = [c \in Controllers |-> FALSE]
    /\ inst = [c \in Controllers |-> FALSE]
    /\ link = [c \in Controllers |-> FALSE]
    /\ pending = [c \in Controllers |-> 0]
    /\ active = NoController
    /\ readySub = [c \in Controllers |-> FALSE]
    /\ availSub = [c \in Controllers |-> 0]
    /\ unloadSub = [c \in Controllers |-> 0]
    /\ callbacks = [p \in Paths |-> << >>]
    /\ val \in VS
    /\ thrown = FALSE
    /\ loadCalled = [c \in Controllers |-> FALSE]
    /\ readyPub = [c \in Controllers |-> 0]
    /\ lastChange = [c \in Controllers |-> "none"]
    /\ trace = << >>

\* what fac, prs and obs hold while they are not followed
Idle == [k |-> "idle"]

\* an element without conditions, left alone
NodeIdle ==
    BeforeInit({[c \in Controllers |-> CondUndefined]}, {[q \in Probes |-> FALSE]})

Init ==
    /\ BeforeInit([Controllers -> Conditions], [Probes -> BOOLEAN])
    /\ fac = Idle /\ prs = Idle /\ obs = Idle

\* Conditioner.loadModules calls init on the Node
NodeInit ==
    /\ ~inited
    /\ Becomes(nodeInit(Fresh(Cur)))

\* the require callback of TestFactory.getTest for leaf i of controller b
TestLoaded(b, i) ==
    /\ inited
    /\ cond[b].typ = "string"
    /\ i \in LeavesOf(cond[b].tree) \ bound[b]
    /\ LET s == loadTesterToExpression(Fresh(Cur), b, i)
       IN WithinBounds(s) /\ Becomes(s)

\* the environment changes and the Test measures it
Measure(path, f) ==
    /\ inited
    /\ LET s == measure(Fresh(Cur), path, f)
       IN WithinBounds(s) /\ Becomes(s)

\* the require callback of ModuleController.load
ModuleLoaded(b) ==
    /\ pending[b] > 0
    /\ LET s0 == Fresh(Cur)
           s == mcOnLoad([s0 EXCEPT !.pending[b] = @ - 1, !.Module[b] = TRUE], b)
       IN Becomes(s)

\* a caller of the public API unloads a controller of the Node
Unload(b) ==
    /\ inited
    /\ LET s == mcUnload(Fresh(Cur), b)
       IN WithinBounds(s) /\ Becomes(s)

Next ==
    \/ NodeInit
    \/ \E b \in Controllers : \E i \in DOMAIN cond[b].tree : TestLoaded(b, i)
    \/ \E path \in Paths :
          \E f \in [{q \in DOMAIN val : q[1] = path} -> BOOLEAN] : Measure(path, f)
    \/ \E b \in Controllers : ModuleLoaded(b)
    \/ \E b \in Controllers : Unload(b)

Spec == Init /\ [][Next]_vars

(***************************************************************************)
(* FactorySpec: TestFactory, the Test classes it creates and the Testers   *)
(* of the leaves of one expression, without the ConditionsManager around   *)
(* them.  fac is a record:                                                 *)
(*   tree     the expression, as the sequence of its nodes                 *)
(*   support  what config.support() of the test module of a path returns   *)
(*   outcome  what assert(expected) of a Test returns at present           *)
(*   stored   TestFactory._tests holds a Test class for the path           *)
(*   created  calls of TestFactory._createTest for the path                *)
(*   tready   Test._ready                                                  *)
(*   setups   calls of config.setup of the Test class                      *)
(*   cbs      Test._callbacks: the leaves whose Test instance is in it     *)
(*   bound    the leaves that have a Tester                                *)
(*   res chg  Tester._result and Tester._changed of the leaves             *)
(*   found    calls of the callback handed to getTest, per leaf            *)
(*   told     times the Tester of a leaf was told of a change during the   *)
(*            last Test._measure                                           *)
(*   outs     what succeeds() of the expression has returned since a       *)
(*            Tester was last told of a change                             *)
(***************************************************************************)

\* evaluations followed between two change notifications
MaxEvals == 2

\* the expressions of FactorySpec, built by the constructors: the leaves,
\* a negated group around a leaf, the binary expressions of two leaves, a
\* negated group around those, and the binary expressions with a binary
\* expression of plain leaves on one side
PlainLeaves == {LeafExpr("a", "1", FALSE), LeafExpr("b", "2", FALSE)}
Leaves == PlainLeaves \cup {LeafExpr("a", "1", TRUE), LeafExpr("b", "2", TRUE)}
Pairs(L) ==
    {BinaryExpression(ExprItem(x), o, ExprItem(y)) : x \in L, o \in {"and", "or"}, y \in L}
Groups(S) == {UnaryExpression(ExprItem(x), TRUE) : x \in S}
Expressions ==
    Leaves \cup Groups(PlainLeaves) \cup Pairs(Leaves) \cup Groups(Pairs(PlainLeaves))
        \cup {BinaryExpression(ExprItem(x), o, ExprItem(y)) :
                 x \in PlainLeaves, o \in {"and", "or"}, y \in Pairs(PlainLeaves)}
        \cup {BinaryExpression(ExprItem(x), o, ExprItem(y)) :
                 x \in Pairs(PlainLeaves), o \in {"and", "or"}, y \in PlainLeaves}

ProbesOf(tree) == {<< tree[i].path, tree[i].value >> : i \in LeavesOf(tree)}

\* TestFactory._createTest
createTest(t, path) ==
    [t EXCEPT !.created[path] = @ + 1, !.stored[path] = TRUE,
              !.cbs[path] = << >>, !.tready[path] = FALSE]

\* Test._setup that calls config.setup for every Test instance
Test_setup_EveryTime(t, path, i) ==
    IF ~t.support[path]
    THEN t
    ELSE [t EXCEPT !.cbs[path] = Append(@, i), !.tready[path] = TRUE,
                   !.setups[path] = @ + 1]

\* Test._setup, called by arrange of the Test instance of leaf i
Test_setup(t, path, i) ==
    IF ~t.support[path]
    THEN t
    ELSE IF t.tready[path]
    THEN [t EXCEPT !.cbs[path] = Append(@, i)]
    ELSE [t EXCEPT !.cbs[path] = Append(@, i), !.tready[path] = TRUE,
                   !.setups[path] = @ + 1]

\* new Tester(test,expected,element) for leaf i, assigned to the leaf
newTester(t, i) ==
    Test_setup([t EXCEPT !.res[i] = FALSE, !.chg[i] = TRUE, !.bound = @ \cup {i}],
               t.tree[i].path, i)

\* getTest that creates a Test class at every resolution
getTest_NoCache(t, i) ==
    Then(createTest(t, t.tree[i].path), LAMBDA t1 :
    newTester([t1 EXCEPT !.found[i] = @ + 1], i))

\* the require callback of TestFactory.getTest for the request of leaf i
getTest(t, i) ==
    Then(IF t.stored[t.tree[i].path] THEN t ELSE createTest(t, t.tree[i].path),
         LAMBDA t1 :
    newTester([t1 EXCEPT !.found[i] = @ + 1], i))

RECURSIVE tellLoop(_, _, _)
\* the loop of Test._measure over Test._callbacks from index j on: onchange
\* of the Test instance publishes 'change', which its Tester hears
tellLoop(t, path, j) ==
    IF j > Len(t.cbs[path])
    THEN t
    ELSE tellLoop([t EXCEPT !.chg[t.cbs[path][j]] = TRUE,
                            !.told[t.cbs[path][j]] = @ + 1,
                            !.outs = << >>], path, j + 1)

\* Test._measure, which config.setup has registered as a listener: the
\* environment has changed so that the asserts of the Test return f, and
\* changed is what config.measure returns (true without a measure hook)
Test_measure(t, path, f, changed) ==
    Then([t EXCEPT !.outcome = [q \in DOMAIN @ |-> IF q[1] = path THEN f[q] ELSE @[q]],
                   !.told = [i \in DOMAIN @ |-> 0]], LAMBDA t1 :
    IF changed THEN tellLoop(t1, path, 1) ELSE t1)

\* succeeds() of the expression, called by a consumer
evaluate(t) ==
    Then(Succeeds(t.tree, 1, t.bound, t.outcome, t.res, t.chg), LAMBDA r :
    [t EXCEPT !.res = r.res, !.chg = r.chg, !.outs = Append(@, r.v)])

FactoryInit ==
    /\ NodeIdle
    /\ prs = Idle /\ obs = Idle
    /\ \E x \in Expressions :
          LET tree == NodesOf(x, 0) IN
          fac \in [k : {"factory"},
                   tree : {tree},
                   support : [Paths -> BOOLEAN],
                   outcome : [ProbesOf(tree) -> BOOLEAN],
                   stored : {[p \in Paths |-> FALSE]},
                   created : {[p \in Paths |-> 0]},
                   tready : {[p \in Paths |-> FALSE]},
                   setups : {[p \in Paths |-> 0]},
                   cbs : {[p \in Paths |-> << >>]},
                   bound : {{}},
                   res : {[i \in LeavesOf(tree) |-> FALSE]},
                   chg : {[i \in LeavesOf(tree) |-> FALSE]},
                   found : {[i \in LeavesOf(tree) |-> 0]},
                   told : {[i \in LeavesOf(tree) |-> 0]},
                   outs : {<< >>}]

\* the require of the test module of leaf i completes
Resolve(i) ==
    /\ i \notin fac.bound
    /\ fac' = getTest(fac, i)
    /\ UNCHANGED << nodeVars, prs, obs >>

\* the environment changes: a Test whose setup has run hears of it through
\* Test._measure; otherwise its asserts just return something else from now
Signal(path, f, changed) ==
    /\ fac' = IF fac.setups[path] > 0
              THEN Test_measure(fac, path, f, changed)
              ELSE [fac EXCEPT !.outcome = [q \in DOMAIN @ |->
                                               IF q[1] = path THEN f[q] ELSE @[q]]]
    /\ UNCHANGED << nodeVars, prs, obs >>

\* a consumer asks the expression, all of whose leaves have their Testers
Evaluate ==
    /\ fac.bound = LeavesOf(fac.tree)
    /\ Len(fac.outs) < MaxEvals
    /\ fac' = evaluate(fac)
    /\ UNCHANGED << nodeVars, prs, obs >>

FactoryNext ==
    \/ \E i \in LeavesOf(fac.tree) : Resolve(i)
    \/ \E path \in Paths :
          \E f \in [{q \in DOMAIN fac.outcome : q[1] = path} -> BOOLEAN] :
             \E changed \in BOOLEAN : Signal(path, f, changed)
    \/ Evaluate

FactorySpec == FactoryInit /\ [][FactoryNext]_vars

(***************************************************************************)
(* ObserverSpec: Observer on its own.  obs is a record:                    *)
(*   subs    obj._subscriptions of each object: pairs << type, fn >>       *)
(*   target  obj._eventPropagationTarget (NoObject is none)                *)
(*   pub     the object and type of the publish call just made             *)
(*   log     the subscribers that call has invoked, in order: << obj, fn >>*)
(* The subscribers are "f", which does nothing else, and "g", which        *)
(* subscribes "f" to the object and type it is called for.                 *)
(***************************************************************************)

\* objects, in the order of propagation (an instance before its controller)
NumObjects == 2
\* subscriptions per object the model follows
MaxSubs == 3

Objects == 1..NumObjects
NoObject == 0
Types == {"load", "unload"}
Fns == {"f", "g"}

\* Observer.subscribe: the loop that looks for the pair compares i with the
\* array itself, which is never true, so the pair is always added
subscribe(t, o, type, fn) == [t EXCEPT !.subs[o] = Append(@, << type, fn >>)]

\* Observer.unsubscribe: removes the last subscription of the pair
unsubscribe(t, o, type, fn) ==
    LET hits == {i \in DOMAIN t.subs[o] : t.subs[o][i] = << type, fn >>} IN
    IF hits = {}
    THEN t
    ELSE LET i == CHOOSE h \in hits : \A g \in hits : g <= h
         IN [t EXCEPT !.subs[o] = SubSeq(@, 1, i - 1) \o SubSeq(@, i + 1, Len(@))]

\* Observer.setupPropagationTarget and Observer.removePropagationTarget
setupPropagationTarget(t, o, tgt) == [t EXCEPT !.target[o] = tgt]
removePropagationTarget(t, o, tgt) ==
    IF t.target[o] = tgt THEN [t EXCEPT !.target[o] = NoObject] ELSE t

\* the subscriber fn, called for a publication of type on object o
call(t, o, type, fn) ==
    Then([t EXCEPT !.log = Append(@, << o, fn >>)], LAMBDA t1 :
    IF fn = "g" THEN subscribe(t1, o, type, "f") ELSE t1)

RECURSIVE callLoop(_, _, _, _, _)
\* the second loop of Observer.publish, over the subscriptions collected
callLoop(t, o, type, subscriptions, i) ==
    IF i > Len(subscriptions)
    THEN t
    ELSE callLoop(call(t, o, type, subscriptions[i][2]), o, type, subscriptions, i + 1)

RECURSIVE publish_TargetFirst(_, _, _)
\* publish that propagates before it calls the object's own subscribers
publish_TargetFirst(t, o, type) ==
    Then(IF t.target[o] # NoObject THEN publish_TargetFirst(t, t.target[o], type) ELSE t,
         LAMBDA t1 :
    callLoop(t1, o, type, SelectSeq(t1.subs[o], LAMBDA x : x[1] = type), 1))

RECURSIVE publish(_, _, _)
\* Observer.publish
publish(t, o, type) ==
    Then(callLoop(t, o, type, SelectSeq(t.subs[o], LAMBDA x : x[1] = type), 1),
         LAMBDA t1 :
    IF t1.target[o] # NoObject THEN publish(t1, t1.target[o], type) ELSE t1)

\* a call of Observer begins: what the last publish call left is forgotten
Called0(t) == [t EXCEPT !.pub = << NoObject, "-" >>, !.log = << >>]

ObserverInit ==
    /\ NodeIdle
    /\ fac = Idle /\ prs = Idle
    /\ obs = [k |-> "observer",
              subs |-> [o \in Objects |-> << >>],
              target |-> [o \in Objects |-> NoObject],
              pub |-> << NoObject, "-" >>,
              log |-> << >>]

Subscribe(o, type, fn) ==
    /\ Len(obs.subs[o]) < MaxSubs
    /\ obs' = subscribe(Called0(obs), o, type, fn)
    /\ UNCHANGED << nodeVars, fac, prs >>

Unsubscribe(o, type, fn) ==
    /\ obs' = unsubscribe(Called0(obs), o, type, fn)
    /\ UNCHANGED << nodeVars, fac, prs >>

\* ModuleController._onLoad links the instance to its controller
SetupPropagationTarget(o, tgt) ==
    /\ o < tgt
    /\ obs' = setupPropagationTarget(Called0(obs), o, tgt)
    /\ UNCHANGED << nodeVars, fac, prs >>

RemovePropagationTarget(o, tgt) ==
    /\ obs' = removePropagationTarget(Called0(obs), o, tgt)
    /\ UNCHANGED << nodeVars, fac, prs >>

Publish(o, type) ==
    /\ LET t == publish([Called0(obs) EXCEPT !.pub = << o, type >>], o, type)
       IN /\ \A q \in Objects : Len(t.subs[q]) <= MaxSubs
          /\ obs' = t
    /\ UNCHANGED << nodeVars, fac, prs >>

ObserverNext ==
    \/ \E o \in Objects, type \in Types, fn \in Fns : Subscribe(o, type, fn)
    \/ \E o \in Objects, type \in Types, fn \in Fns : Unsubscribe(o, type, fn)
    \/ \E o \in Objects, tgt \in Objects : SetupPropagationTarget(o, tgt)
    \/ \E o \in Objects, tgt \in Objects : RemovePropagationTarget(o, tgt)
    \/ \E o \in Objects, type \in Types : Publish(o, type)

ObserverSpec == ObserverInit /\ [][ObserverNext]_vars

(***************************************************************************)
(* ParserSpec: ExpressionFormatter.fromString step by step, followed by    *)
(* toString of the expression it returns and fromString of that string.    *)
(* prs is a record:                                                        *)
(*   s      the string given at first, wf whether it is well-formed        *)
(*   e      the string being parsed: s in round 1, the serialization of    *)
(*          the expression parsed from s (first) in round 2                *)
(*   p      the variables of fromString                                    *)
(*   pc     where fromString is: "for" (the for loop), "do" (the top of    *)
(*          the do..while), "group" (the grouping loop, at index j),       *)
(*          "while" (the condition of the do..while), "done" (returned     *)
(*          out), "throw" (TypeError), "forever" (the grouping loop is     *)
(*          back in a situation it has been in)                            *)
(*   seen   the situations the running grouping loop has been in: the      *)
(*          index j with the kinds of the elements of target, which is     *)
(*          all its tests and its splices depend on                        *)
(***************************************************************************)

\* nesting of 'not' and parentheses in the well-formed strings
MaxNesting == 3
\* tokens in the other strings
MaxTokens == 3

Not(s) == Operators[3] \o s
Par(s) == << "(" >> \o s \o << ")" >>
Bin(s, n, t) == s \o << " " >> \o Operators[n] \o t

RECURSIVE Unaries(_)
Unaries(n) ==
    IF n = 0
    THEN {StrA, StrB}
    ELSE LET U == Unaries(n - 1) IN U \cup {Not(s) : s \in U} \cup {Par(s) : s \in U}

Binaries == {Bin(s, n, t) : s \in Unaries(1), n \in 1..2, t \in Unaries(1)}

RECURSIVE NotRun(_, _)
\* k times 'not ' before the string s
NotRun(k, s) == IF k = 0 THEN s ELSE Not(NotRun(k - 1, s))

\* an operand with k times 'not ' before it: at index 0 of the string, after
\* an opening parenthesis and after a space
NotRuns(k) ==
    {NotRun(k, s) : s \in {StrA, Par(StrA)}}
      \cup {Par(NotRun(k, s)) : s \in {StrA, Par(StrA)}}
      \cup {Bin(StrB, n, NotRun(k, s)) : n \in 1..2, s \in {StrA, Par(StrA)}}

\* three operands, the second or third a negated group
Triples ==
    {Bin(Bin(StrA, m, s), n, t) : m \in 1..2, n \in 1..2,
                                  s \in {StrB, Not(Par(StrB))}, t \in Unaries(1) \cup {Not(Par(StrA))}}
      \cup {Bin(Not(Par(StrA)), n, t) : n \in 1..2, t \in Unaries(1)}

\* strings of the grammar: leaves, prefix not, infix and/or, parentheses
WellFormed ==
    Unaries(MaxNesting) \cup Binaries
      \cup {Par(s) : s \in Binaries} \cup {Not(Par(s)) : s \in Binaries}
      \cup Triples
      \cup UNION {NotRuns(k) : k \in 0..MaxNesting}

Tokens == {StrA, << "(" >>, << ")" >>, << " " >>} \cup {Operators[n] : n \in 1..3}

RECURSIVE TokenStrings(_)
TokenStrings(n) ==
    IF n = 0
    THEN {<< >>}
    ELSE LET S == TokenStrings(n - 1) IN S \cup {s \o t : s \in S, t \in Tokens}

\* the strings fromString is given
Inputs == WellFormed \cup TokenStrings(MaxTokens)

\* the characters of a string
Chars(str) == [i \in 1..Len(str) |-> SubSeq(str, i, i)]

RECURSIVE toString(_)
\* UnaryExpression.prototype.toString and BinaryExpression.prototype.toString
toString(x) ==
    CASE x.k = "leaf" ->
            (IF x.negate THEN << "n", "o", "t", " " >> ELSE << >>)
              \o Chars(x.path) \o << ":", "{" >> \o Chars(x.value) \o << "}" >>
      [] x.k = "un" ->
            (IF x.negate THEN << "n", "o", "t", " " >> ELSE << >>) \o toString(x.a)
      [] x.k = "bin" ->
            << "(" >> \o toString(x.a) \o << " " >> \o Chars(x.o) \o << " " >>
              \o toString(x.b) \o << ")" >>

RECURSIVE Proper(_)
\* an expression whose leaves all have a {path,value} config
Proper(x) ==
    CASE x.k = "leaf" -> TRUE
      [] x.k = "un" -> Proper(x.a)
      [] x.k = "bin" -> Proper(x.a) /\ Proper(x.b)
      [] OTHER -> FALSE

\* the kinds of the elements of an array
Shape(T) == [n \in 1..Len(T) |-> IF T[n].t = "op" THEN T[n].s ELSE T[n].t]

\* fromString(e) is called
Parsing(s, wf, e, round, first) ==
    [k |-> "parser", s |-> s, wf |-> wf, e |-> e, round |-> round, first |-> first,
     p |-> Begin, pc |-> "for", j |-> 0, seen |-> {}, out |-> NoExpr]

ParserInit ==
    /\ NodeIdle
    /\ fac = Idle /\ obs = Idle
    /\ \E s \in Inputs : prs = Parsing(s, s \in WellFormed, s, 1, NoExpr)

\* one iteration of the for loop up to its clean-up
ForStep ==
    /\ prs.pc = "for"
    /\ prs.p.i < Len(prs.e)
    /\ LET h == readHead(prs.e, [prs.p EXCEPT !.clean = FALSE]) IN
       prs' = IF h.err
              THEN [prs EXCEPT !.p = h, !.pc = "throw"]
              ELSE IF h.clean
              THEN [prs EXCEPT !.p = h, !.pc = "do"]
              ELSE [prs EXCEPT !.p = [h EXCEPT !.i = @ + 1]]
    /\ UNCHANGED << nodeVars, fac, obs >>

\* the top of the do body: the parent is popped, an empty target gives way
\* to it, any other target is grouped
DoStep ==
    /\ prs.pc = "do"
    /\ LET p1 == popParent(prs.p) IN
       prs' = IF p1.target = NoArray
              THEN [prs EXCEPT !.p = [p1 EXCEPT !.err = TRUE], !.pc = "throw"]
              ELSE IF Len(p1.arr[p1.target]) = 0
              THEN [prs EXCEPT !.p = [p1 EXCEPT !.target = p1.parent], !.pc = "while"]
              ELSE [prs EXCEPT !.p = p1, !.pc = "group", !.j = 0, !.seen = {}]
    /\ UNCHANGED << nodeVars, fac, obs >>

\* one iteration of the grouping loop
GroupStep ==
    /\ prs.pc = "group"
    /\ prs.j < Len(prs.p.arr[prs.p.target])
    /\ LET T == prs.p.arr[prs.p.target]
           r == groupStep(T, prs.j)
       IN prs' = IF << prs.j, Shape(T) >> \in prs.seen
                 THEN [prs EXCEPT !.pc = "forever"]
                 ELSE [prs EXCEPT !.p.arr[prs.p.target] = r.T, !.j = r.j,
                                  !.seen = @ \cup {<< prs.j, Shape(T) >>}]
    /\ UNCHANGED << nodeVars, fac, obs >>

\* the grouping loop ends
GroupEnd ==
    /\ prs.pc = "group"
    /\ prs.j >= Len(prs.p.arr[prs.p.target])
    /\ prs' = [prs EXCEPT !.p = collapse(@), !.pc = "while"]
    /\ UNCHANGED << nodeVars, fac, obs >>

\* the condition of the do..while, and the i++ of the for loop after it
WhileStep ==
    /\ prs.pc = "while"
    /\ prs' = IF again(prs.e, prs.p)
              THEN [prs EXCEPT !.pc = "do"]
              ELSE [prs EXCEPT !.p.i = @ + 1, !.pc = "for"]
    /\ UNCHANGED << nodeVars, fac, obs >>

\* the for loop ends and fromString returns
Return ==
    /\ prs.pc = "for"
    /\ prs.p.i >= Len(prs.e)
    /\ prs' = [prs EXCEPT !.out = returns(prs.p), !.pc = "done"]
    /\ UNCHANGED << nodeVars, fac, obs >>

\* toString of the expression returned, and fromString of the result
Serialize ==
    /\ prs.pc = "done"
    /\ prs.round = 1
    /\ Proper(prs.out)
    /\ prs' = Parsing(prs.s, prs.wf, toString(prs.out), 2, prs.out)
    /\ UNCHANGED << nodeVars, fac, obs >>

ParserNext ==
    \/ ForStep
    \/ DoStep
    \/ GroupStep
    \/ GroupEnd
    \/ WhileStep
    \/ Return
    \/ Serialize

ParserSpec == ParserInit /\ [][ParserNext]_vars

(***************************************************************************)
(* SameTestSpec: the Node of Spec with a condition that asks the same Test *)
(* twice, as in "media:{(min-width:40em)} and media:{(max-width:60em)}":   *)
(* both leaves have a Tester of their own on Test a, and Test._callbacks   *)
(* holds one callback for each.                                            *)
(***************************************************************************)
StrA2 == << "a", ":", "{", "2", "}" >>
StrAandA2 == StrA \o << " ", "a", "n", "d", " " >> \o StrA2

\* the first controller has the condition, the others have none or "a:{1}"
SameTestConditions == {CondUndefined, CondString(StrA), CondString(StrAandA2)}

SameTestInit ==
    /\ BeforeInit({c \in [Controllers -> SameTestConditions] :
                      \A b \in Controllers : (c[b].str = StrAandA2) <=> (b = 1)},
                  [{<< "a", "1" >>, << "a", "2" >>} -> BOOLEAN])
    /\ fac = Idle /\ prs = Idle /\ obs = Idle

SameTestSpec == SameTestInit /\ [][Next]_vars

(***************************************************************************)
(* Properties.                                                             *)
(***************************************************************************)
AllReady == inited /\ \A c \in Controllers : ready[c]

\* the controller with the lowest index of S, NoController if S is empty
FirstOf(S) == IF S = {} THEN NoController ELSE CHOOSE c \in S : \A d \in S : c <= d

\* entries k and j of the trace are the start and the end of one publication
\* of event e by one controller
Dispatch(k, j, e, eEnd) ==
    /\ k \in DOMAIN trace /\ j \in DOMAIN trace /\ k < j
    /\ trace[k].e = e /\ trace[j].e = eEnd /\ trace[j].b = trace[k].b
    /\ \A i \in (k + 1)..(j - 1) : ~(trace[i].e \in {e, eEnd} /\ trace[i].b = trace[k].b)

\* the method m has been called on controller c between entries k and j
Called(m, c, k, j) == \E i \in k..j : trace[i].e = m /\ trace[i].b = c

\* C1: at most one ModuleController of the Node has a module instance, in
\* every reachable state, whatever the order in which the require callbacks
\* of load complete.
C1_AtMostOneActive == Cardinality({c \in Controllers : isActive(Cur, c)}) <= 1

\* the group of C2: first controller unconditioned, second with a condition
\* string (controllers beyond the second, if any, unconditioned)
C2_Group ==
    /\ cond[1].typ = "undefined" /\ cond[2].typ = "string"
    /\ \A c \in Controllers \ {1, 2} : cond[c].typ = "undefined"

\* C2: in that group the Node loads the first controller, and when the
\* second publishes available while the first is the active one, the first
\* stays the active controller and unload is not called on it.
C2_KeepsFirst ==
    C2_Group =>
        /\ AllReady => loadCalled[1]
        /\ \A k, j \in DOMAIN trace :
              (Dispatch(k, j, "available", "available:end")
                  /\ trace[k].b = 2 /\ trace[k].act = 1)
              => (trace[j].act = 1 /\ ~Called("unload()", 1, k, j))

\* C3: once all controllers are ready the Node has run its election, and
\* the controller the election makes active is the available one with the
\* lowest index (load has been called on it), none if none is available.
C3_FirstFit ==
    /\ AllReady => \A c \in Controllers : availSub[c] > 0
    /\ \A k \in DOMAIN trace :
          trace[k].e = "elected" =>
              /\ trace[k].act = FirstOf(trace[k].av)
              /\ trace[k].act # NoController => Called("load()", trace[k].act, 1, k)

\* an election in which the first controller is not available and the
\* second is elected
C3_Witness ==
    \E k \in DOMAIN trace :
        /\ trace[k].e = "elected"
        /\ 1 \notin trace[k].av
        /\ trace[k].act = 2

\* C4: when controller B publishes available while a conditioned controller
\* A with a lower index is available, the publication changes neither the
\* active controller of the Node nor any instance, and calls no load or
\* unload.
C4_NoPreempt ==
    \A k, j \in DOMAIN trace :
        (Dispatch(k, j, "available", "available:end")
            /\ \E A \in trace[k].av : A < trace[k].b /\ isConditioned(Cur, A))
        => /\ trace[j].act = trace[k].act
           /\ trace[j].live = trace[k].live
           /\ \A i \in k..j : trace[i].e \notin {"load()", "unload()", "load", "unload"}

\* B publishes available to the subscribed Node while a conditioned A
\* before it is active, available and has its instance
C4_Witness ==
    \E k, j \in DOMAIN trace :
        /\ Dispatch(k, j, "available", "available:end")
        /\ trace[k].n > 0
        /\ trace[k].act \in trace[k].av \cap trace[k].live
        /\ trace[k].act < trace[k].b
        /\ isConditioned(Cur, trace[k].act)

\* the Node's handler runs for the unload published by entry k
NodeHearsUnload(k, j) ==
    Dispatch(k, j, "unload", "unload:end") /\ trace[k].n > 0

\* C5: when the active controller publishes unload, then before the
\* publication returns the Node has made the first available controller
\* active and called its load, or has no active controller if none is
\* available; and once all are ready the Node goes from no active
\* controller to an active one only in a handler in which a controller
\* publishes available.
C5_Reelect ==
    /\ [](\A k, j \in DOMAIN trace :
            NodeHearsUnload(k, j) =>
                /\ trace[k].act = trace[k].b
                /\ trace[j].act = FirstOf(trace[j].av)
                /\ trace[j].act # NoController => Called("load()", trace[j].act, k, j))
    /\ [][(AllReady /\ active = NoController /\ active' # NoController)
            => \E k \in DOMAIN trace' : trace'[k].e = "available"]_vars

\* the active controller publishes unload and another controller replaces it
C5_Witness ==
    \E k, j \in DOMAIN trace :
        /\ NodeHearsUnload(k, j)
        /\ trace[j].act \notin {NoController, trace[k].b}

\* C6: if the active controller unloads when no controller is available,
\* the Node has no active controller when the publication returns; and
\* whenever the Node has no active controller, execute returns status 404
\* and a null response for every method.
C6_NoActive404 ==
    /\ \A k, j \in DOMAIN trace :
          (NodeHearsUnload(k, j) /\ trace[j].av = {}) => trace[j].act = NoController
    /\ (inited /\ active = NoController) =>
          \A m \in Methods : nodeExecute(Cur, m) = [status |-> 404, response |-> "null"]

\* the active controller has unloaded with nothing available and the Node
\* is left without an active controller
C6_Witness ==
    /\ active = NoController
    /\ \E k, j \in DOMAIN trace :
          NodeHearsUnload(k, j) /\ trace[j].av = {} /\ j = Len(trace)

\* C7: when load is called on the Node's active controller, and when that
\* controller publishes load, no other controller of the Node has an
\* instance: the controller it replaced has been torn down before.
C7_TeardownBeforeLoad ==
    \A k \in DOMAIN trace :
        (trace[k].e \in {"load()", "load"} /\ trace[k].act = trace[k].b)
        => trace[k].live \subseteq {trace[k].b}

\* C8: while some controller is not ready the Node has no active controller
\* and load has been called on no controller.
C8_NothingBeforeAllReady ==
    (inited /\ \E c \in Controllers : ~isReady(Cur, c))
    => (active = NoController /\ \A c \in Controllers : ~loadCalled[c])

\* one controller is ready and suitable on its conditions while another is
\* not ready yet
C8_Witness ==
    /\ inited
    /\ \E c, d \in Controllers :
          /\ ~ready[c]
          /\ ready[d] /\ cond[d].typ = "string" /\ suitable[d] /\ readyPub[d] = 1

\* C9: a ConditionsManager with a condition string has published ready
\* once if all its leaves have a Tester and not at all otherwise, and the
\* ready event carries the value of the tree at that moment.
C9_ReadyOnce ==
    /\ \A c \in Controllers :
          cond[c].typ = "string" =>
              readyPub[c] = (IF inited /\ bound[c] = LeavesOf(cond[c].tree) THEN 1 ELSE 0)
    /\ \A k \in DOMAIN trace :
          trace[k].e = "cm.ready" => trace[k].d = trace[k].tv

\* a manager with two leaves has published ready with a true verdict, the
\* Test of its second leaf having been loaded first
C9_Witness ==
    \E c \in Controllers, k \in DOMAIN trace :
        /\ cond[c].typ = "string" /\ Cardinality(LeavesOf(cond[c].tree)) = 2
        /\ trace[k].e = "cm.ready" /\ trace[k].b = c /\ trace[k].d
        /\ readyPub[c] = 1
        /\ res[c][2] /\ ~chg[c][2]

\* C10: a ConditionsManager publishes change only after it has published
\* ready.
C10_ChangeAfterReady ==
    \A k \in DOMAIN trace : trace[k].e = "cm.change" => trace[k].rp > 0

\* the trace entry after k is the 'change' publication of the test of entry k
ChangeFollows(k) ==
    /\ k + 1 \in DOMAIN trace
    /\ trace[k + 1].e = "cm.change" /\ trace[k + 1].b = trace[k].b

\* C11: a test() of a ConditionsManager that has published ready publishes
\* change exactly when the value of the tree differs from the stored
\* _suitable, and then _suitable already has the new value when the event
\* is published; every change event is published by a test(); and two
\* consecutive change events of one manager carry opposite verdicts.
C11_ChangeIffDiffers ==
    /\ [](\A k \in DOMAIN trace :
            /\ (trace[k].e = "cm.test" /\ trace[k].rp > 0) =>
                  /\ ChangeFollows(k) <=> (trace[k].d # (trace[k].b \in trace[k].av))
                  /\ ChangeFollows(k) =>
                        /\ trace[k + 1].d = trace[k].d
                        /\ (trace[k].b \in trace[k + 1].av) = trace[k].d
            /\ trace[k].e = "cm.change" =>
                  (k - 1 \in DOMAIN trace /\ trace[k - 1].e = "cm.test"
                      /\ trace[k - 1].b = trace[k].b))
    /\ [][\A k \in DOMAIN trace' :
            trace'[k].e = "cm.change" =>
                LET b == trace'[k].b
                    before == {i \in 1..(k - 1) :
                                  trace'[i].e = "cm.change" /\ trace'[i].b = b}
                    prev == IF before = {}
                            THEN lastChange[b]
                            ELSE BoolStr(trace'[CHOOSE i \in before :
                                                   \A h \in before : h <= i].d)
                IN prev # BoolStr(trace'[k].d)]_vars

\* in one measurement a ready manager turns unsuitable and publishes change
\* (its earlier change said suitable), and another ready manager tests
\* again without a change of its verdict
C11_Witness ==
    \E k, j \in DOMAIN trace :
        /\ trace[k].e = "cm.test" /\ trace[k].rp > 0
        /\ ChangeFollows(k) /\ ~trace[k + 1].d
        /\ trace[j].e = "cm.test" /\ trace[j].rp > 0 /\ ~ChangeFollows(j)

\* the group of C12: controller c has the condition "a:{1} and not b:{2}"
\* and is the only controller with a condition string
C12_Only(c) ==
    /\ cond[c].typ = "string" /\ cond[c].str = StrAandNotB
    /\ \A d \in Controllers \ {c} : cond[d].typ # "string"

C13_NoStringAlwaysSuitable ==
    \A c \in Controllers :
        (inited /\ cond[c].typ # "string") =>
            /\ suitable[c]
            /\ bound[c] = {} /\ count[c] = 0
            /\ \A q \in Paths : \A j \in DOMAIN callbacks[q] : callbacks[q][j][1] # c
            /\ readyPub[c] = 0 /\ lastChange[c] = "none"
            /\ \A k \in DOMAIN trace :
                  trace[k].b = c =>
                      trace[k].e \notin {"cm.test", "cm.change", "cm.ready", "TypeError"}

\* a manager without a condition string sits next to a manager that has
\* just published a change to unsuitable, its controller holding the instance
C13_Witness ==
    \E c, d \in Controllers, k \in DOMAIN trace :
        /\ inited /\ cond[c].typ # "string" /\ inst[c]
        /\ trace[k].e = "cm.change" /\ trace[k].b = d /\ ~trace[k].d

\* C14: when the require callback of load runs _onLoad on a controller
\* whose ConditionsManager is unsuitable at that moment, the callback
\* publishes nothing (no load event) and leaves the instances as they were.
C14_StaleLoadDiscarded ==
    (trace # << >> /\ trace[1].e = "onLoad()" /\ trace[1].b \notin trace[1].av)
    => /\ Len(trace) = 1
       /\ trace[1].live = {c \in Controllers : inst[c]}

\* the require callback of load has just run on a controller whose manager
\* had turned unsuitable while the module was loading
C14_Witness ==
    /\ trace # << >> /\ trace[1].e = "onLoad()" /\ trace[1].b \notin trace[1].av
    /\ cond[trace[1].b].typ = "string" /\ readyPub[trace[1].b] = 1
    /\ lastChange[trace[1].b] = "F"

\* the first entry after k that is the 'unload' publication of controller b
NextUnload(k, b) ==
    LET later == {m \in DOMAIN trace : m > k /\ trace[m].e = "unload" /\ trace[m].b = b}
    IN IF later = {} THEN 0 ELSE CHOOSE m \in later : \A h \in later : m <= h

\* C15: unload on a controller without an instance returns false and
\* publishes nothing; on a controller with an instance it removes the
\* propagation target of the instance, then calls the module's unload if
\* the module defines one, then sets _moduleInstance to null, then
\* publishes unload once, then returns true.
C15_UnloadInOrder ==
    \A k \in DOMAIN trace :
        trace[k].e = "unload()" =>
            LET b == trace[k].b
                hook == IF b \in ModulesWithUnload THEN 1 ELSE 0
            IN IF b \notin trace[k].live
               THEN /\ k + 1 \in DOMAIN trace
                    /\ trace[k + 1].e = "unload:false" /\ trace[k + 1].b = b
               ELSE /\ k + 2 + hook \in DOMAIN trace
                    /\ b \in trace[k].lk
                    /\ trace[k + 1].e = "removePropagationTarget" /\ trace[k + 1].b = b
                    /\ b \notin trace[k + 1].lk /\ b \in trace[k + 1].live
                    /\ hook = 1 =>
                          /\ trace[k + 2].e = "instance.unload()" /\ trace[k + 2].b = b
                          /\ b \notin trace[k + 2].lk /\ b \in trace[k + 2].live
                    /\ trace[k + 1 + hook].live = trace[k].live
                    /\ trace[k + 2 + hook].e = "unload" /\ trace[k + 2 + hook].b = b
                    /\ trace[k + 2 + hook].live = trace[k].live \ {b}
                    /\ \E j \in DOMAIN trace :
                          /\ Dispatch(k + 2 + hook, j, "unload", "unload:end")
                          /\ trace[j].d
                          /\ NextUnload(k + 2 + hook, b) \in {0} \cup {m \in DOMAIN trace : m > j}

\* a controller whose module defines unload is unloaded with its instance,
\* and the unload the Node calls on it inside the publication returns false
C15_Witness ==
    \E k, j \in DOMAIN trace :
        /\ trace[k].e = "instance.unload()"
        /\ trace[j].e = "unload:false" /\ trace[j].b = trace[k].b /\ j > k
        /\ trace[Len(trace)].e = "unload:end" /\ trace[Len(trace)].b = trace[k].b

\* C16: whenever the Node has no active controller or its active
\* controller has no instance (its module may still be loading), execute
\* of the Node returns status 404 with a null response and throws nothing,
\* and so does execute of every controller without an instance; when the
\* active controller has an instance, execute of the Node returns what
\* execute of that controller returns.
C16_Execute404 ==
    inited =>
        \A m \in Methods :
            /\ (active = NoController \/ ~inst[active]) =>
                  nodeExecute(Cur, m) = [status |-> 404, response |-> "null"]
            /\ \A b \in Controllers :
                  ~inst[b] => mcExecute(Cur, b, m) = [status |-> 404, response |-> "null"]
            /\ (active # NoController /\ inst[active]) =>
                  nodeExecute(Cur, m) = mcExecute(Cur, active, m)

\* the Node has an active controller whose module is still loading, while
\* a controller it has replaced holds an instance
C16_Witness ==
    /\ active # NoController /\ ~inst[active] /\ pending[active] > 0
    /\ \E b \in Controllers : inst[b]

\* C17: execute on a controller with an instance throws an Error for a
\* method the module does not define and returns status 200 with the
\* method's return value for one it defines, directly and through the Node
\* when the controller is the active one.
C17_ExecuteOnInstance ==
    \A b \in Controllers :
        inst[b] =>
            /\ \A m \in Methods \ ModuleMethods :
                  /\ mcExecute(Cur, b, m) = [status |-> 0, response |-> "Error"]
                  /\ active = b => nodeExecute(Cur, m) = [status |-> 0, response |-> "Error"]
            /\ \A m \in ModuleMethods :
                  /\ mcExecute(Cur, b, m) = [status |-> 200, response |-> "value"]
                  /\ active = b => nodeExecute(Cur, m) = [status |-> 200, response |-> "value"]

\* the active controller has an instance, loaded after its manager
\* published ready
C17_Witness ==
    /\ active # NoController /\ inst[active]
    /\ cond[active].typ = "string" /\ readyPub[active] = 1

\* entry k is a 'change' publication of the manager of a ready controller
ReadyChange(k) ==
    k \in DOMAIN trace /\ trace[k].e = "cm.change" /\ trace[k].rp > 0

\* C18: when the manager of a ready controller publishes change, a
\* controller with an instance and an unsuitable verdict unloads at once,
\* and a controller without an instance and a suitable verdict publishes
\* available without calling load itself (an instance it gets in that
\* handler comes from the Node calling load); an instance is created only
\* by _onLoad, run by load or by its require callback; and a controller
\* with an instance has a suitable verdict whenever no handler is running.
C18_ChangeUnloadsOrAnnounces ==
    /\ [](\A k \in DOMAIN trace :
            /\ ReadyChange(k) =>
                  LET b == trace[k].b IN
                  /\ (b \in trace[k].live /\ ~trace[k].d) =>
                        /\ k + 1 \in DOMAIN trace
                        /\ trace[k + 1].e = "unload()" /\ trace[k + 1].b = b
                        /\ \E m \in DOMAIN trace :
                              m > k /\ trace[m].e = "unload" /\ trace[m].b = b
                                    /\ b \notin trace[m].live
                  /\ (b \notin trace[k].live /\ trace[k].d) =>
                        /\ k + 1 \in DOMAIN trace
                        /\ trace[k + 1].e = "available" /\ trace[k + 1].b = b
                        /\ trace[k + 1].n = 0 => ~inst[b]
            /\ trace[k].e = "load" =>
                  /\ k > 1
                  /\ trace[k - 1].e = "onLoad()" /\ trace[k - 1].b = trace[k].b
                  /\ k > 2 => (trace[k - 2].e = "load()" /\ trace[k - 2].b = trace[k].b))
    /\ [](\A b \in Controllers : inst[b] => suitable[b])
    /\ [][\A b \in Controllers :
            (~inst[b] /\ inst'[b]) =>
                \E k \in DOMAIN trace' : trace'[k].e = "load" /\ trace'[k].b = b]_vars

\* a ready controller without an instance, its module already loaded,
\* turns suitable: it publishes available and the Node's load gives it
\* its instance within that publication
C18_Witness ==
    \E k, m \in DOMAIN trace :
        /\ ReadyChange(k) /\ trace[k].d /\ trace[k].b \notin trace[k].live
        /\ m > k /\ trace[m].e = "load" /\ trace[m].b = trace[k].b
        /\ inst[trace[k].b]

\* C19: isConditioned returns true exactly for a controller whose
\* conditions option is a string, and false when it is undefined or null.
C19_ConditionedIffString ==
    \A c \in Controllers :
        inited => (isConditioned(Cur, c) <=> cond[c].typ = "string")

\* C20: a controller whose conditions are not a string is ready from its
\* construction; one with a condition string is ready exactly when its
\* manager has published ready; and a ready controller stays ready.
C20_ReadyOnceReady ==
    /\ [](inited =>
            \A c \in Controllers :
                /\ cond[c].typ # "string" => isReady(Cur, c)
                /\ cond[c].typ = "string" => (isReady(Cur, c) <=> readyPub[c] > 0))
    /\ [][\A c \in Controllers : (inited /\ ready[c]) => ready'[c]]_vars

\* a controller with a condition string is ready, its manager having
\* since changed to unsuitable, next to a controller that is not ready yet
C20_Witness ==
    \E c, d \in Controllers :
        /\ inited /\ cond[c].typ = "string" /\ ready[c] /\ lastChange[c] = "F"
        /\ ~suitable[c] /\ ~ready[d]

\* C21: no evaluation throws: a test() that meets a leaf without a Tester
\* takes that leaf as false (the verdict of the tree being computed with
\* it), whether it is run by _onReady or by a change of a Test while other
\* leaves of the tree have their Testers.
C21_UnboundLeafFalse ==
    /\ ~thrown
    /\ \A k \in DOMAIN trace : trace[k].e # "TypeError"

\* the value of node i by boolean algebra, leaf[j] being what the Tester of
\* leaf j answers
RECURSIVE Reference(_, _, _)
Reference(tree, i, leaf) ==
    CASE tree[i].k = "leaf" -> IF tree[i].negate THEN ~leaf[i] ELSE leaf[i]
      [] tree[i].k = "un" ->
            IF tree[i].negate
            THEN ~Reference(tree, tree[i].a, leaf)
            ELSE Reference(tree, tree[i].a, leaf)
      [] OTHER ->
            IF tree[i].o = "and"
            THEN Reference(tree, tree[i].a, leaf) /\ Reference(tree, tree[i].b, leaf)
            ELSE Reference(tree, tree[i].a, leaf) \/ Reference(tree, tree[i].b, leaf)

\* what the Tester of each leaf of fac.tree answers when asked now
Answers ==
    [i \in LeavesOf(fac.tree) |->
        IF fac.chg[i]
        THEN fac.outcome[<< fac.tree[i].path, fac.tree[i].value >>]
        ELSE fac.res[i]]

\* succeeds() of node i of fac.tree, asked now
NodeSucceeds(i) ==
    Succeeds(fac.tree, i, fac.bound, fac.outcome, fac.res, fac.chg).v = "T"

\* succeeds() of expression x with new Testers, under the asserts of fac
FreshSucceeds(x) ==
    LET tree == NodesOf(x, 0) IN
    Succeeds(tree, 1, LeavesOf(tree), fac.outcome,
             [i \in LeavesOf(tree) |-> FALSE], [i \in LeavesOf(tree) |-> TRUE]).v

\* the plain leaves whose Test asserts in fac
KnownLeaves == {x \in PlainLeaves : << x.path, x.value >> \in DOMAIN fac.outcome}

And(x, y) == BinaryExpression(ExprItem(x), "and", ExprItem(y))
Or(x, y) == BinaryExpression(ExprItem(x), "or", ExprItem(y))

\* C22: with a Tester on every leaf, succeeds() of an 'and' expression is
\* the conjunction, of an 'or' expression the disjunction of what
\* succeeds() of its two operands returns, of a negating UnaryExpression
\* the negation of its operand's; the expression returns the value boolean
\* algebra gives the formula for the answers of its Testers, every call
\* returns that value, and 'and' and 'or' associate and distribute.
C22_BooleanAlgebra ==
    /\ [](fac.bound = LeavesOf(fac.tree) =>
            /\ NodeSucceeds(1) = Reference(fac.tree, 1, Answers)
            /\ \A i \in DOMAIN fac.tree :
                  LET n == fac.tree[i] IN
                  /\ (n.k = "bin" /\ n.o = "and") =>
                        NodeSucceeds(i) = (NodeSucceeds(n.a) /\ NodeSucceeds(n.b))
                  /\ (n.k = "bin" /\ n.o = "or") =>
                        NodeSucceeds(i) = (NodeSucceeds(n.a) \/ NodeSucceeds(n.b))
                  /\ n.k = "un" => NodeSucceeds(i) = (NodeSucceeds(n.a) # n.negate)
                  /\ n.k = "leaf" => NodeSucceeds(i) = (Answers[i] # n.negate)
            /\ \A x, y, z \in KnownLeaves :
                  /\ FreshSucceeds(And(And(x, y), z)) = FreshSucceeds(And(x, And(y, z)))
                  /\ FreshSucceeds(Or(Or(x, y), z)) = FreshSucceeds(Or(x, Or(y, z)))
                  /\ FreshSucceeds(And(x, Or(y, z)))
                        = FreshSucceeds(Or(And(x, y), And(x, z)))
                  /\ FreshSucceeds(Or(x, And(y, z)))
                        = FreshSucceeds(And(Or(x, y), Or(x, z))))
    /\ [][Len(fac'.outs) > Len(fac.outs) =>
            fac'.outs[Len(fac'.outs)] = BoolStr(Reference(fac.tree, 1, Answers))]_vars

\* 'a or (b and a)' has returned true although its first leaf answers
\* false, the Tester of the second having answered from its cache
C22_Witness ==
    /\ fac.k = "factory" /\ Len(fac.outs) = 2 /\ fac.outs[2] = "T"
    /\ fac.tree[1].k = "bin" /\ fac.tree[1].o = "or"
    /\ fac.tree[fac.tree[1].b].k = "bin" /\ fac.tree[fac.tree[1].b].o = "and"
    /\ ~fac.res[fac.tree[1].a]
    /\ ~fac.outcome[<< "b", "2" >>] /\ fac.res[fac.tree[fac.tree[1].b].a]

\* what the leaves of fac.tree would answer if every Tester asked its
\* Test's assert now
Asserts ==
    [i \in LeavesOf(fac.tree) |-> fac.outcome[<< fac.tree[i].path, fac.tree[i].value >>]]

\* C23: the calls of succeeds() of an expression whose leaves all have
\* their Testers, made while no Tester of the expression is told of a
\* change, all return the same boolean, whatever the asserts of the Tests
\* would return in the meantime: a Tester whose _changed is false returns
\* its _result and does not call assert.
C23_SameWithoutChange ==
    /\ \A m, n \in DOMAIN fac.outs : fac.outs[m] = fac.outs[n] /\ fac.outs[m] \in {"T", "F"}
    /\ \A i \in fac.bound :
          ~fac.chg[i] =>
              TesterSucceeds(fac.tree, i, fac.outcome, fac.res, fac.chg)
                  = [v |-> fac.res[i], res |-> fac.res, chg |-> fac.chg]

\* the expression has been evaluated twice to true while its value under
\* the present asserts, which changed unannounced in between, is false
C23_Witness ==
    /\ fac.k = "factory" /\ Len(fac.outs) = 2 /\ fac.outs[1] = "T"
    /\ ~Reference(fac.tree, 1, Asserts)
    /\ \E p \in Paths : fac.setups[p] > 0

\* C25: the Tester of a leaf whose Test class is not supported
\* (config.support() returned false) returns false from succeeds(),
\* whatever its assert returns.
C25_UnsupportedFails ==
    \A i \in fac.bound :
        ~fac.support[fac.tree[i].path] =>
            ~TesterSucceeds(fac.tree, i, fac.outcome, fac.res, fac.chg).v

\* the leaves of fac.tree whose Test is that of path p
LeavesOn(p) == {i \in LeavesOf(fac.tree) : fac.tree[i].path = p}

\* C26: config.setup of the Test class of a path is called at most once,
\* however many leaves arrange a Test instance of that path and in
\* whatever order their requires complete; it has been called exactly when
\* the Test is supported and a first leaf has arranged, whose callback is
\* registered by then.
C26_SetupOnce ==
    \A p \in Paths :
        /\ fac.setups[p] <= 1
        /\ fac.setups[p] = 1 <=> (fac.support[p] /\ fac.bound \cap LeavesOn(p) # {})
        /\ fac.setups[p] = 1 => (fac.tready[p] /\ Len(fac.cbs[p]) >= 1)
        /\ fac.support[p] => Len(fac.cbs[p]) = Cardinality(fac.bound \cap LeavesOn(p))

\* two leaves have arranged a Test instance of the same supported Test,
\* the later leaf of the expression first, and setup has run once
C26_Witness ==
    \E p \in Paths :
        /\ fac.k = "factory" /\ fac.setups[p] = 1
        /\ Len(fac.cbs[p]) = 2 /\ fac.cbs[p][1] > fac.cbs[p][2]

\* C27: TestFactory creates at most one Test class per path and keeps it:
\* a require callback that finds the class stored creates none; and the
\* callback handed to getTest has been called once for every request whose
\* require has completed and not at all for the others.
C27_OneTestPerPath ==
    /\ [](\A p \in Paths :
            /\ fac.created[p] <= 1
            /\ fac.stored[p] <=> fac.created[p] = 1
            /\ fac.created[p] = 1 <=> fac.bound \cap LeavesOn(p) # {})
    /\ [](\A i \in LeavesOf(fac.tree) : fac.found[i] = IF i \in fac.bound THEN 1 ELSE 0)
    /\ [][\A p \in Paths : fac.stored[p] => (fac'.stored[p] /\ fac'.created[p] = 1)]_vars

\* the requires of two leaves with the same path have completed: one Test
\* class, each callback called once
C27_Witness ==
    \E p \in Paths, i, j \in fac.bound :
        /\ fac.k = "factory" /\ i # j
        /\ fac.tree[i].path = p /\ fac.tree[j].path = p
        /\ fac.created[p] = 1 /\ fac.found[i] = 1 /\ fac.found[j] = 1

\* the entries of the trace at which a callback of Test._measure has run
Told == {m \in DOMAIN trace : trace[m].e = "test.change"}

\* C28: when a Test measures a change, each callback registered in
\* Test._callbacks is called once, in the order of registration: the
\* Tester of its leaf sets _changed, and then the test() of the
\* ConditionsManager that owns the leaf runs.
C28_EveryConsumerTold ==
    \A k \in DOMAIN trace :
        trace[k].e = "measure" =>
            \E p \in Paths :
                /\ Len(callbacks[p]) = trace[k].n
                /\ Cardinality(Told) = trace[k].n
                /\ \A m \in Told :
                      LET j == Cardinality({h \in Told : h <= m}) IN
                      /\ trace[m].b = callbacks[p][j][1]
                      /\ trace[m].n = callbacks[p][j][2]
                      /\ trace[m].d
                      /\ m + 1 \in DOMAIN trace
                      /\ trace[m + 1].e = "cm.test" /\ trace[m + 1].b = trace[m].b

RECURSIVE Invoked(_, _, _, _)
\* the calls a publication of type on object o owes: the subscribers of o for
\* the type in the order they subscribed, then those of its propagation target
Invoked(subs, target, o, type) ==
    LET own == SelectSeq(subs[o], LAMBDA x : x[1] = type) IN
    [i \in 1..Len(own) |-> << o, own[i][2] >>]
      \o (IF target[o] # NoObject THEN Invoked(subs, target, target[o], type) ELSE << >>)

\* C29: when Observer.publish(obj, type, data) returns it has invoked exactly
\* the subscribers obj had for type when it was called, in subscription order,
\* and after them those of obj's propagation target; subscribers of other
\* types have not been invoked.
C29_PublishInOrder ==
    [][(obs.k = "observer" /\ obs'.pub[1] # NoObject)
         => obs'.log = Invoked(obs.subs, obs.target, obs'.pub[1], obs'.pub[2])]_vars

\* a publication on an object with two subscribers, one of which subscribes
\* a third, and a propagation target that has a subscriber of each type
C29_Witness ==
    /\ obs.k = "observer"
    /\ obs.pub = << 1, "load" >>
    /\ obs.target[1] = 2
    /\ Len(obs.log) = 3
    /\ obs.log[1] = << 1, "f" >>
    /\ obs.log[2] = << 1, "g" >>
    /\ obs.log[3][1] = 2
    /\ Len(obs.subs[1]) = 3
    /\ \E i \in DOMAIN obs.subs[2] : obs.subs[2][i][1] = "unload"

\* the {path,value} configs of the leaves of an expression
ConfigsOf(x) ==
    LET tree == NodesOf(x, 0) IN {<< tree[i].path, tree[i].value >> : i \in LeavesOf(tree)}

\* two expressions that evaluate alike whatever their tests assert
Equivalent(x, y) ==
    /\ Proper(x) /\ Proper(y)
    /\ \A asg \in [ConfigsOf(x) \cup ConfigsOf(y) -> BOOLEAN] :
          TreeValue(NodesOf(x, 0), 1, asg) = TreeValue(NodesOf(y, 0), 1, asg)

\* C24: for a well-formed string s, fromString of toString of fromString(s)
\* returns an expression that evaluates to the same boolean as fromString(s)
\* under every assignment of booleans to the leaves.
C24_RoundTrip ==
    (prs.k = "parser" /\ prs.wf /\ prs.round = 2 /\ prs.pc \in {"done", "throw", "forever"})
       => (prs.pc = "done" /\ Equivalent(prs.first, prs.out))

\* C30: fromString terminates on every string: it returns or throws, its
\* grouping loop never comes back to a situation it has been in (from which
\* it would go round forever).
C30_FromStringTerminates ==
    prs.k = "parser" => prs.pc # "forever"

\* fromString step by step returns what fromString returns
StepsAgree ==
    (prs.k = "parser" /\ prs.pc \in {"done", "throw"})
       => fromString(prs.e) = (IF prs.pc = "throw" THEN [k |-> "throw"] ELSE prs.out)

\* the elements of a group: operands, binary operators and 'not'
IsOperand(x) == x.t = "expr"
IsNot(x) == x.t = "op" /\ x.s = "not"
IsBinary(x) == x.t = "op" /\ x.s # "not"

RECURSIVE FoldNots(_)
\* every 'not' followed by an operand becomes the negation of that operand,
\* until none remains
FoldNots(T) ==
    IF T = << >>
    THEN << >>
    ELSE LET R == FoldNots(Tail(T)) IN
         IF IsNot(Head(T)) /\ R # << >> /\ IsOperand(R[1])
         THEN << ExprItem(UnaryExpression(R[1], TRUE)) >> \o Tail(R)
         ELSE << Head(T) >> \o R

RECURSIVE FoldBinaries(_)
\* operand operator operand at the left end becomes one binary node, until
\* no such triple remains
FoldBinaries(T) ==
    IF Len(T) >= 3 /\ IsOperand(T[1]) /\ IsBinary(T[2]) /\ IsOperand(T[3])
    THEN FoldBinaries(<< ExprItem(BinaryExpression(T[1], T[2].s, T[3])) >> \o SubSeq(T, 4, Len(T)))
    ELSE T

\* a group of the grammar: operands with 'not's before them, separated by
\* binary operators
IsGroup(T) ==
    /\ T # << >>
    /\ \A n \in DOMAIN T : T[n].t \in {"expr", "op"}
    /\ Len(FoldBinaries(FoldNots(T))) = 1
    /\ IsOperand(FoldBinaries(FoldNots(T))[1])

\* C31: the grouping loop reduces a group of the grammar to exactly one
\* node: every 'not' negates just the operand that follows it, and the
\* binary operators are folded from left to right without precedence, so
\* o1 op1 o2 op2 o3 becomes ((o1 op1 o2) op2 o3).
C31_GroupReduction ==
    (prs.k = "parser" /\ prs.pc = "group" /\ prs.j = 0 /\ prs.seen = {}
       /\ IsGroup(prs.p.arr[prs.p.target]))
       => groupLoop(prs.p.arr[prs.p.target], 0) = FoldBinaries(FoldNots(prs.p.arr[prs.p.target]))

\* the same for groups in which no 'not' is followed by another 'not'
C31_NoNotNot ==
    (prs.k = "parser" /\ prs.pc = "group" /\ prs.j = 0 /\ prs.seen = {}
       /\ IsGroup(prs.p.arr[prs.p.target])
       /\ \A n \in 1..(Len(prs.p.arr[prs.p.target]) - 1) :
             ~(IsNot(prs.p.arr[prs.p.target][n]) /\ IsNot(prs.p.arr[prs.p.target][n + 1])))
       => groupLoop(prs.p.arr[prs.p.target], 0) = FoldBinaries(FoldNots(prs.p.arr[prs.p.target]))

\* C32: an empty group "()" contributes no element to its enclosing group:
\* when the do..while gives up an empty target for its parent, the parent
\* does not end with the empty array.
C32_EmptyGroupVanishes ==
    [][(prs.k = "parser" /\ prs.pc = "do" /\ prs'.pc = "while"
          /\ Len(prs.p.arr[prs.p.target]) = 0 /\ prs'.p.target # NoArray)
         => LET T == prs'.p.arr[prs'.p.target]
            IN ~(T # << >> /\ T[Len(T)] = ArrItem(prs.p.target))]_vars

RECURSIVE HasLeaf(_, _)
HasLeaf(x, path) ==
    CASE x.k = "leaf" -> x.path = path
      [] x.k = "un" -> HasLeaf(x.a, path)
      [] x.k = "bin" -> HasLeaf(x.a, path) \/ HasLeaf(x.b, path)
      [] OTHER -> FALSE

RECURSIVE Negations(_, _)
\* the number of negations between the root of an expression and its leaf
\* of the given path
Negations(x, path) ==
    CASE x.k = "leaf" -> IF x.negate THEN 1 ELSE 0
      [] x.k = "un" -> (IF x.negate THEN 1 ELSE 0) + Negations(x.a, path)
      [] x.k = "bin" -> IF HasLeaf(x.a, path) THEN Negations(x.a, path) ELSE Negations(x.b, path)
      [] OTHER -> 0

\* C33: in the expression fromString returns, an operand preceded by k
\* consecutive 'not' keywords is negated k times, whether the keywords start
\* at index 0, after an opening parenthesis or after a space.
C33_EveryNotCounts ==
    \A k \in 0..MaxNesting :
       (prs.k = "parser" /\ prs.round = 1 /\ prs.pc \in {"done", "throw", "forever"}
          /\ prs.s \in NotRuns(k))
          => (prs.pc = "done" /\ Proper(prs.out) /\ Negations(prs.out, "a") = k)

\* the same for at most one 'not' before the operand
C33_SingleNot ==
    \A k \in 0..1 :
       (prs.k = "parser" /\ prs.round = 1 /\ prs.pc \in {"done", "throw", "forever"}
          /\ prs.s \in NotRuns(k))
          => (prs.pc = "done" /\ Proper(prs.out) /\ Negations(prs.out, "a") = k)

\* C34: subscribe called again with the same type and the same function
\* registers nothing new: no object has a subscription twice, so a publish
\* invokes the function once.
C34_SubscribedOnce ==
    obs.k = "observer"
       => \A o \in Objects : \A m, n \in DOMAIN obs.subs[o] :
             m # n => obs.subs[o][m] # obs.subs[o][n]

\* C35: when a controller publishes available to the Node and no controller
\* before it is available, it is the Node's active controller when the
\* publication returns, also when a conditioned controller after it is
\* available and active.
C35_ElectsEarliest ==
    \A k, j \in DOMAIN trace :
        (Dispatch(k, j, "available", "available:end")
            /\ trace[k].n > 0
            /\ \A A \in trace[k].av : A >= trace[k].b)
        => trace[j].act = trace[k].b

\* the same when no other conditioned controller is available
C35_Unopposed ==
    \A k, j \in DOMAIN trace :
        (Dispatch(k, j, "available", "available:end")
            /\ trace[k].n > 0
            /\ ~thrown
            /\ \A A \in trace[k].av : A = trace[k].b \/ ~isConditioned(Cur, A))
        => trace[j].act = trace[k].b

\* nothing is in flight: the Node has run its election and no require
\* callback of a Tester or of a module is outstanding
Quiescent ==
    /\ inited /\ AllReady
    /\ \A c \in Controllers : pending[c] = 0

Live == {c \in Controllers : inst[c]}

\* C36: once every pending require has completed and the tests measure no
\* further change, a Node with an available controller has exactly one
\* controller with a module instance.  Nothing but a new measurement or a
\* call from outside changes a quiescent state, so a quiescent state with
\* an available controller and not exactly one instance refutes the claim.
C36_EventuallyOneLive ==
    (Quiescent /\ \E c \in Controllers : suitable[c]) => Cardinality(Live) = 1

\* the same, asking for at least one instance
C36_SomeLive ==
    (Quiescent /\ \E c \in Controllers : suitable[c]) => Live # {}

\* C37: in a quiescent state a controller has a module instance if and
\* only if it is the Node's active controller.
C37_LiveIffActive ==
    Quiescent => \A c \in Controllers : inst[c] <=> (active = c)

\* the two directions of C37
C37_LiveIsActive == Quiescent => \A c \in Controllers : inst[c] => (active = c)
C37_ActiveIsLive == Quiescent => (active # NoController => inst[active])

\* C38: _moduleInstance is assigned a new instance only while the
\* controller has none (the one it had has been unloaded), and it is reset
\* only by unload, after the module's unload method has been called and
\* with the publication of 'unload' following.
C38_NoInstanceDropped ==
    \A k \in DOMAIN trace :
        /\ trace[k].e = "load" =>
              (k > 1 /\ trace[k - 1].e = "onLoad()" /\ trace[k].b \notin trace[k - 1].live)
        /\ (trace[k].e = "unload" /\ trace[k].b \in ModulesWithUnload) =>
              (k > 1 /\ trace[k - 1].e = "instance.unload()" /\ trace[k - 1].b = trace[k].b
                     /\ trace[k].b \in trace[k - 1].live /\ trace[k].b \notin trace[k].live)

\* the reset half of C38 alone
C38_ResetOnlyByUnload ==
    /\ \A k \in DOMAIN trace :
          (trace[k].e = "unload" /\ trace[k].b \in ModulesWithUnload) =>
              (k > 1 /\ trace[k - 1].e = "instance.unload()" /\ trace[k - 1].b = trace[k].b
                     /\ trace[k].b \in trace[k - 1].live /\ trace[k].b \notin trace[k].live)
    /\ \A k \in 1..(Len(trace) - 1) :
          (trace[k].live \ trace[k + 1].live) \subseteq
              (IF trace[k + 1].e = "unload" THEN {trace[k + 1].b} ELSE {})

\* the entries of the trace at which test() of controller c has evaluated
\* its tree, and those at which its manager has published change
Verdicts(c) == {k \in DOMAIN trace : trace[k].e = "cm.test" /\ trace[k].b = c}
Changes(c) == {k \in DOMAIN trace : trace[k].e = "cm.change" /\ trace[k].b = c}

\* the last handler was Test._measure and went through without a TypeError
Measured == trace # << >> /\ trace[1].e = "measure" /\ ~thrown

\* C39: every verdict a manager computes in response to a measurement is
\* the value of its tree with every leaf asserted against what the Test
\* measures now, also when two leaves use the same Test, and one
\* measurement makes a manager publish change at most once.
C39_NoStaleVerdict ==
    Measured =>
        \A c \in Controllers :
            /\ \A k \in Verdicts(c) : trace[k].d = trace[k].tv
            /\ Cardinality(Changes(c)) <= 1

\* the same for the managers whose leaves use different Tests
C39_DistinctTests ==
    Measured =>
        \A c \in Controllers :
            cond[c].str # StrAandA2 =>
                /\ \A k \in Verdicts(c) : trace[k].d = trace[k].tv
                /\ Cardinality(Changes(c)) <= 1

====
